---- MODULE Spec2Model ----
(***************************************************************************)
(* Model of oss-metrics-kit.  This part covers the scoring engine          *)
(* (ossmk/core/services/score.py): score_events and the RuleSet it reads.  *)
(*                                                                         *)
(* Representation.                                                         *)
(*  - A Python str is a sequence of tokens; a token is "/" , " ", "," or a *)
(*    chunk of text holding none of them.  "" is << >>.                    *)
(*  - An optional str is [none |-> BOOLEAN, s |-> str].                    *)
(*  - Instants are whole hours since an epoch (UTC); an aware datetime is  *)
(*    [tag |-> "dt", inst |-> hours, off |-> utc offset in hours].         *)
(*  - Floats are exact rationals over a fixed denominator: weights over    *)
(*    WDen, penalty factors over PDen, decay factors over DDen.  A score   *)
(*    value is an integer count of 1/(WDen*PDen*PDen*DDen).                *)
(***************************************************************************)
EXTENDS Integers, Sequences, FiniteSets, TLC

\* ---------------------------------------------------------------- bounds
MaxEvents == 3
MaxCap == 2
MaxBurst == 25

\* ------------------------------------------------------------ fixed point
\* weights are tenths (0.8 is 8), penalty factors halves, decay factors quarters
WDen == 10
PDen == 2
DDen == 4
HoursPerDay == 24

\* one unit of weight 1.0 with no penalty and no decay
Unit == WDen * PDen * PDen * DDen

\* ------------------------------------------------------------ str helpers
LowerTok(t) ==
    CASE t = "U1" -> "u1"
      [] t = "Org" -> "org"
      [] t = "Window" -> "window"
      [] t = "D" -> "d"
      [] t = "Z" -> "z"
      [] OTHER -> t

\* str.lower()
Lower(s) == [i \in 1..Len(s) |-> LowerTok(s[i])]

RECURSIVE LStrip(_)
LStrip(s) == IF s # << >> /\ Head(s) = " " THEN LStrip(Tail(s)) ELSE s

RECURSIVE RStrip(_)
RStrip(s) ==
    IF s # << >> /\ s[Len(s)] = " " THEN RStrip(SubSeq(s, 1, Len(s) - 1)) ELSE s

\* str.strip()
Strip(s) == RStrip(LStrip(s))

\* index of the first sep in s at or after position from, 0 when there is none
RECURSIVE Find(_, _, _)
Find(s, sep, from) ==
    IF from > Len(s) THEN 0
    ELSE IF s[from] = sep THEN from
    ELSE Find(s, sep, from + 1)

\* str.split(sep, maxsplit): the list of parts
RECURSIVE SplitFrom(_, _, _, _)
SplitFrom(s, sep, maxsplit, from) ==
    LET i == Find(s, sep, from) IN
    IF maxsplit = 0 \/ i = 0 THEN << SubSeq(s, from, Len(s)) >>
    ELSE << SubSeq(s, from, i - 1) >> \o SplitFrom(s, sep, maxsplit - 1, i + 1)

Split(s, sep, maxsplit) == SplitFrom(s, sep, maxsplit, 1)

\* Optional[str]
NoneStr == [none |-> TRUE, s |-> << >>]

Str(s) == [none |-> FALSE, s |-> s]

\* truth value of an Optional[str]
Truthy(x) == ~x.none /\ x.s # << >>

\* ------------------------------------------------------------ environment
\* os.getenv(name): Unset, or the text of the variable.  The text is
\* [kind |-> "num", n |-> value] for a numeric literal (value in the unit of
\* the variable it is read for), [kind |-> "text", s |-> str] otherwise.
Unset == [kind |-> "unset"]

Num(n) == [kind |-> "num", n |-> n]

Text(s) == [kind |-> "text", s |-> s]

\* float(os.getenv(name, default)) inside try/except: the value, or
\* fallback when the text is no number
FloatEnv(v, default, fallback) ==
    CASE v.kind = "unset" -> default
      [] v.kind = "num" -> v.n
      [] OTHER -> fallback

\* ------------------------------------------------------------------ rules
\* spec.get("kinds", set())
SpecKinds(spec) == IF "kinds" \in DOMAIN spec THEN spec.kinds ELSE {}

\* the dimension's weight, whatever the kind
SpecWeightFlat(spec, kind) == IF "weight" \in DOMAIN spec THEN spec.weight ELSE WDen

\* spec.get("weights_by_kind", {}).get(kind, spec.get("weight", 1.0))
SpecWeight(spec, kind) ==
    IF "weights_by_kind" \in DOMAIN spec /\ kind \in DOMAIN spec.weights_by_kind
    THEN spec.weights_by_kind[kind]
    ELSE IF "weight" \in DOMAIN spec THEN spec.weight ELSE WDen

DefaultDimensions ==
    [code |-> [kinds |-> {"pr", "commit"}, weight |-> 10,
               weights_by_kind |-> [commit |-> 8, pr |-> 10]],
     review |-> [kinds |-> {"review"}, weight |-> 6],
     community |-> [kinds |-> {"issue"}, weight |-> 3]]

DefaultFairness == [commit |-> 20, pr |-> 5, review |-> 50, issue |-> 10]

\* _default_rules(); a decay setting None is the number 0 or the text << >>,
\* which the engine's `or` treats alike
default_rules ==
    [dimensions |-> DefaultDimensions,
     fairness |-> DefaultFairness,
     decay_half_life_days |-> 0,
     decay_mode |-> NoneStr,
     decay_window_days |-> 0]

\* rules.fairness or {}
NoFairness == [k \in {} |-> 0]

\* --------------------------------------------------- score_events: set-up
\* the names bound in score.py's module namespace by its imports and
\* definitions, and inside score_events by its local imports
ModuleNames ==
    {"annotations", "defaultdict", "dataclass", "Iterable", "tomllib", "os",
     "ContributionEvent", "RuleSet", "_default_rules", "load_rules",
     "score_events", "log", "exp"}

\* orgs_env.split(","), stripped, lower-cased, empties dropped
UserOrgs(v) ==
    LET orgs_env == IF v.kind = "text" THEN v.s ELSE << >>
        parts == Split(orgs_env, ",", Len(orgs_env))
    IN  {Lower(Strip(parts[i])) : i \in {j \in 1..Len(parts) : Strip(parts[j]) # << >>}}

\* float(env or "0") or (rule or 0.0), a text that is no number falling back
\* to the rule's value
EnvOrRule(v, rule) ==
    LET e == FloatEnv(v, 0, 0) IN IF e # 0 THEN e ELSE rule

\* (rules.decay_mode or os.getenv("OSSMK_DECAY_MODE") or "exponential").lower()
DecayMode(rule, v) ==
    IF Truthy(rule) THEN Lower(rule.s)
    ELSE IF v.kind = "text" /\ v.s # << >> THEN Lower(v.s)
    ELSE << "exponential" >>

\* what score_events computes before its loop
Configure(rules, env) ==
    [fair_default |-> rules.fairness,
     self_repo_penalty |-> FloatEnv(env.OSSMK_SELF_REPO_PENALTY, PDen, PDen),
     user_orgs |-> UserOrgs(env.OSSMK_USER_ORGS),
     decay_hl |-> EnvOrRule(env.OSSMK_DECAY_HALF_LIFE_DAYS, rules.decay_half_life_days),
     decay_mode |-> DecayMode(rules.decay_mode, env.OSSMK_DECAY_MODE),
     window_days |-> EnvOrRule(env.OSSMK_DECAY_WINDOW_DAYS, rules.decay_window_days)]

\* --------------------------------------------------- score_events: an event
NoDate == [tag |-> "none"]

DateTime(inst, off) == [tag |-> "dt", inst |-> inst, off |-> off]

\* datetime.date(): the calendar day of the datetime's own wall clock
LocalDate(dt) == (dt.inst + dt.off) \div HoursPerDay

\* the calendar day of the instant in UTC
UtcDate(dt) == dt.inst \div HoursPerDay

\* str(getattr(day, "date", lambda: None)() or
\*     getattr(day, "split", lambda _: "")("T")[0]):
\* None has neither attribute, so ""[0] raises IndexError
DayKey(created_at) ==
    IF created_at.tag = "dt"
    THEN [raised |-> FALSE, key |-> LocalDate(created_at)]
    ELSE [raised |-> TRUE, key |-> 0]

\* the comparison allowing one event too many
OverCapLate(n, cap) == n > cap + 1

\* the comparison the wrong way round
OverCapInverted(n, cap) == n <= cap

\* counters[key] > fair_default.get(kind, 10)
OverCap(n, cap) == n > cap

\* the owner taken from "owner/name" too
OwnerOfShort(repo_id) ==
    LET text == IF Truthy(repo_id) THEN repo_id.s ELSE << "/", "/", "/" >>
        parts == Split(text, "/", 2)
    IN  IF Len(parts) = 3 THEN parts[2]
        ELSE IF Len(parts) = 2 THEN parts[1] ELSE << >>

\* host, owner, _name = (ev.repo_id or "///").split("/", 2), owner = "" when
\* the unpacking fails
Owner(repo_id) ==
    LET text == IF Truthy(repo_id) THEN repo_id.s ELSE << "/", "/", "/" >>
        parts == Split(text, "/", 2)
    IN  IF Len(parts) = 3 THEN parts[2] ELSE << >>

\* self_repo_penalty < 1.0 and owner and ev.user_id and
\* ev.user_id.lower() == owner.lower()
SelfRepo(cfg, ev, owner) ==
    /\ cfg.self_repo_penalty < PDen
    /\ owner # << >>
    /\ ev.user_id # << >>
    /\ Lower(ev.user_id) = Lower(owner)

\* user_orgs and owner and owner.lower() in user_orgs
OrgRepo(cfg, owner) ==
    /\ cfg.user_orgs # {}
    /\ owner # << >>
    /\ Lower(owner) \in cfg.user_orgs

\* the age with datetime and timezone imported
AgeHoursImported(now, created_at) == [raised |-> FALSE, age |-> now - created_at.inst]

\* (datetime.now(timezone.utc) - ev.created_at) in hours; the names datetime
\* and timezone must be bound for the expression to evaluate
AgeHours(now, created_at) ==
    IF {"datetime", "timezone"} \subseteq ModuleNames
    THEN [raised |-> FALSE, age |-> now - created_at.inst]
    ELSE [raised |-> TRUE, age |-> 0]

RECURSIVE Pow2(_)
Pow2(k) == IF k <= 0 THEN 1 ELSE 2 * Pow2(k - 1)

\* exp(-lam * age_days), lam = log(2) / decay_hl, over DDen; exact at whole
\* multiples of the half-life, the value of the multiple below otherwise
ExpDecay(age, hl) ==
    LET k == age \div (hl * HoursPerDay)
    IN  IF k >= 0 THEN DDen \div Pow2(k) ELSE DDen * Pow2(-k)

\* max(0.0, 1.0 - age_days / window_days) over DDen, rounded down
LinearDecay(age, window) ==
    LET f == (DDen * (window * HoursPerDay - age)) \div (window * HoursPerDay)
    IN  IF f > 0 THEN f ELSE 0

\* the decay step of one dimension: [skip, f] where skip is the `continue`
\* of window mode and f the factor over DDen
Decay(cfg, now, created_at) ==
    LET a == AgeHours(now, created_at) IN
    IF created_at.tag # "dt" \/ a.raised THEN [skip |-> FALSE, f |-> DDen]
    ELSE IF cfg.decay_mode = << "exponential" >> /\ cfg.decay_hl > 0
         THEN [skip |-> FALSE, f |-> ExpDecay(a.age, cfg.decay_hl)]
    ELSE IF cfg.decay_mode = << "linear" >> /\ cfg.window_days > 0
         THEN [skip |-> FALSE, f |-> LinearDecay(a.age, cfg.window_days)]
    ELSE IF cfg.decay_mode = << "window" >> /\ cfg.window_days > 0
         THEN [skip |-> a.age > cfg.window_days * HoursPerDay, f |-> DDen]
    ELSE [skip |-> FALSE, f |-> DDen]

\* the penalties added to the weight instead of scaling it
DimWeightBonus(spec, ev, cfg, env, now) ==
    LET owner == Owner(ev.repo_id)
        fs == IF SelfRepo(cfg, ev, owner) THEN PDen + cfg.self_repo_penalty ELSE PDen
        fo == IF OrgRepo(cfg, owner)
              THEN PDen + FloatEnv(env.OSSMK_ORG_REPO_PENALTY, PDen, PDen) ELSE PDen
        d == Decay(cfg, now, ev.created_at)
    IN  [skip |-> d.skip, w |-> SpecWeight(spec, ev.kind) * fs * fo * d.f]

\* the body of `for dim, spec in rules.dimensions.items()` for a dimension that
\* lists the kind: [skip, w], w the amount added to scores[user][dim]
DimWeight(spec, ev, cfg, env, now) ==
    LET owner == Owner(ev.repo_id)
        fs == IF SelfRepo(cfg, ev, owner) THEN cfg.self_repo_penalty ELSE PDen
        fo == IF OrgRepo(cfg, owner)
              THEN FloatEnv(env.OSSMK_ORG_REPO_PENALTY, PDen, PDen) ELSE PDen
        d == Decay(cfg, now, ev.created_at)
    IN  [skip |-> d.skip, w |-> SpecWeight(spec, ev.kind) * fs * fo * d.f]

\* defaultdict reads
Get(f, k) == IF k \in DOMAIN f THEN f[k] ELSE 0

Put(f, k, v) == [x \in DOMAIN f \cup {k} |-> IF x = k THEN v ELSE f[x]]

Empty == [k \in {} |-> 0]

\* one pass of `for ev in events`: st is [scores, counters, raised]
Accumulate(st, ev, rules, cfg, env, now) ==
    LET dk == DayKey(ev.created_at)
        capped == ev.kind \in DOMAIN cfg.fair_default
        key == << ev.user_id, ev.kind, dk.key >>
        n == Get(st.counters, key) + 1
        counted == IF capped THEN Put(st.counters, key, n) ELSE st.counters
        dims == {d \in DOMAIN rules.dimensions :
                    /\ ev.kind \in SpecKinds(rules.dimensions[d])
                    /\ ~DimWeight(rules.dimensions[d], ev, cfg, env, now).skip}
        add(d) == DimWeight(rules.dimensions[d], ev, cfg, env, now).w
    IN  IF dk.raised THEN [st EXCEPT !.raised = TRUE]
        ELSE IF capped /\ OverCap(n, cfg.fair_default[ev.kind])
        THEN [st EXCEPT !.counters = counted]
        ELSE [scores |->
                 [k \in DOMAIN st.scores \cup {<< ev.user_id, d >> : d \in dims} |->
                     Get(st.scores, k)
                     + (IF k[1] = ev.user_id /\ k[2] \in dims THEN add(k[2]) ELSE 0)],
              counters |-> counted,
              raised |-> FALSE]

\* the flattening of scores into records
Flatten(scores) ==
    {[user_id |-> k[1], dimension |-> k[2], value |-> scores[k], window |-> "all"] :
        k \in DOMAIN scores}

Start == [scores |-> Empty, counters |-> Empty, raised |-> FALSE]

RECURSIVE Loop(_, _, _, _, _, _)
Loop(st, events, rules, cfg, env, now) ==
    IF events = << >> \/ st.raised THEN st
    ELSE Loop(Accumulate(st, Head(events), rules, cfg, env, now),
              Tail(events), rules, cfg, env, now)

\* score_events(events, rules) run with environment env at instant now:
\* [raised, out]; an exception leaves no result
score_events(events, rules, env, now) ==
    LET st == Loop(Start, events, rules, Configure(rules, env), env, now)
    IN  [raised |-> st.raised, out |-> IF st.raised THEN {} ELSE Flatten(st.scores)]

\* ------------------------------------------------------------------ state
VARIABLES
    events,     \* the events argument, a list of ContributionEvent
    rules,      \* the rules argument, a RuleSet
    env,        \* os.environ during the call
    now,        \* the wall clock during the call
    pc,         \* "start", "loop", "done" or "raised"
    idx,        \* position of `for ev in events`
    cfg,        \* the locals computed before the loop
    scores,     \* scores[user][dimension]
    counters,   \* counters[(user, kind, day)]
    out,        \* the returned records
    backend,       \* the storage backend in use: "sqlite" or "postgres"
    ossmk_events,  \* table ossmk_events: id -> row
    ossmk_scores,  \* table ossmk_scores: (user_id, dimension, window) -> row
    clock,         \* the database clock, now() of the next statement
    saved,         \* the return value of the last save_* call
    event_calls,   \* the arguments of the save_events calls so far
    score_calls,   \* the arguments of the save_scores calls so far
    server,        \* the forge: the number of pages of the listing
    cache,         \* table http_cache: url -> entry
    fetch,         \* the REST fetch in progress: phase, pc, url, events
    calls,         \* the cached GETs made so far, in order
    results,       \* the events each finished fetch returned, by phase
    gets,          \* the concurrent cached GETs: task -> pc, n, cached, ret
    written,       \* the entries HttpCache.set was called with
    gql,           \* the GraphQL fetch in progress: op, pc, after, events, total
    posts,         \* the `after` variable of the GraphQL requests made so far
    req,           \* the http_get or http_get_async call in progress
    pfetch,        \* the paginated fetch that made it: mode, pc, events, trace
    epoch,         \* the wall clock in seconds, datetime.now(UTC).timestamp()
    agg,           \* the per-user aggregate in progress: provider, fn, pc, events
    jobs,          \* its per-repo work: repo -> pc, and the commits fetched
    sem,           \* the value of its asyncio.Semaphore
    call,          \* the call of parse_since: arg, max_days, at, pc, ret
    upd,           \* the backend_update_user calls: caller -> pc, manual, used, limit, result, ret
    users,         \* table users: the user ids upserted
    update_usage,  \* table update_usage: the rows of the user inside the window
    snapshots,     \* table snapshots: the totals recorded for the user, oldest first
    growth_points, \* table growth_points: the rows inserted for the user
    analysed,      \* the number of analyses run so far
    forge,         \* the kinds of contribution the forge holds for the login
    run,           \* the analyze_github_user calls on it: api -> pc, events, out, error
    lst,           \* the fetch_user_repos call: provider, pages, max_repos, pc, names, error
    limiter,       \* the RateLimiter: capacity, window_seconds, buckets: key -> (tokens, reset_ts)
    wall,          \* time.time()
    granted,       \* the calls that succeeded since the last reset of each key's window
    acquired       \* the calls of try_acquire so far, and the key and result of the last

scoring == << events, rules, env, now, pc, idx, cfg, scores, counters, out >>

storage == << backend, ossmk_events, ossmk_scores, clock, saved, event_calls, score_calls >>

http == << server, cache, fetch, calls, results >>

tasks == << gets, written >>

graphql == << gql, posts >>

retrying == << req, pfetch, epoch >>

fanout == << agg, jobs, sem >>

parsing == << call >>

updating == << upd, users, update_usage, snapshots, growth_points, analysed >>

analysing == << forge, run >>

listing == << lst >>

limiting == << limiter, wall, granted, acquired >>

vars == << scoring, storage, http, tasks, graphql, retrying, fanout, parsing, updating, analysing, listing, limiting >>

\* what the scoring engine, the storage backends and the REST client leave alone
outside_scoring == << storage, http, tasks, graphql, retrying, fanout, parsing, updating, analysing, listing, limiting >>

outside_storage == << scoring, http, tasks, graphql, retrying, fanout, parsing, updating, analysing, listing, limiting >>


inputs == << events, rules, env, now >>

\* a backend on which nothing was saved
StorageIdle ==
    /\ backend = "sqlite"
    /\ ossmk_events = << >>
    /\ ossmk_scores = << >>
    /\ clock = 1
    /\ saved = 0
    /\ event_calls = << >>
    /\ score_calls = << >>

\* a client that has fetched nothing, its cache empty
HttpIdle ==
    /\ server = 1
    /\ cache = << >>
    /\ fetch = [phase |-> "original", pc |-> "idle", url |-> << >>, events |-> << >>]
    /\ calls = << >>
    /\ results = << >>

\* no concurrent cached GET
TasksIdle ==
    /\ gets = << >>
    /\ written = {}

\* no GraphQL fetch
GraphqlIdle ==
    /\ gql = [op |-> "search", pc |-> "idle", after |-> NoneStr, events |-> << >>,
              total |-> 0]
    /\ posts = << >>

\* no call of http_get or http_get_async
RetryIdle ==
    /\ req = [fn |-> "http_get", pc |-> "idle", url |-> << >>, cached |-> [none |-> TRUE],
              sent |-> << >>, slept |-> << >>, result |-> [none |-> TRUE]]
    /\ pfetch = [mode |-> "sync", pc |-> "idle", events |-> << >>, trace |-> << >>]
    /\ epoch = 1

\* no aggregate
AggregateIdle ==
    /\ agg = [provider |-> "client", fn |-> "fetch_user_contributions", pc |-> "idle",
              listed |-> FALSE, repos |-> 0, i |-> 1, events |-> << >>, error |-> ""]
    /\ jobs = << >>
    /\ sem = 0

\* no call of parse_since
SinceIdle ==
    call = [arg |-> NoneStr, max_days |-> [none |-> TRUE, n |-> 0], at |-> 0,
            pc |-> "idle", ret |-> [kind |-> "none"]]

\* no call of backend_update_user
UpdateIdle ==
    /\ upd = << >>
    /\ users = {}
    /\ update_usage = 0
    /\ snapshots = << >>
    /\ growth_points = << >>
    /\ analysed = 0

\* no call of analyze_github_user
AnalyseIdle ==
    /\ forge = {}
    /\ run = << >>

\* no call of fetch_user_repos
ListingIdle ==
    lst = [provider |-> "client", pages |-> 1, max_repos |-> [none |-> TRUE, n |-> 0],
           pc |-> "idle", names |-> << >>, error |-> ""]

\* no RateLimiter
LimiterIdle ==
    /\ limiter = [capacity |-> 0, window_seconds |-> 0, buckets |-> << >>]
    /\ wall = 0
    /\ granted = << >>
    /\ acquired = [n |-> 0, key |-> "", ok |-> FALSE]

\* a scoring pass that has not begun
EngineIdle ==
    /\ events = << >>
    /\ rules = default_rules
    /\ now = 0
    /\ pc = "idle"
    /\ idx = 1
    /\ cfg = << >>
    /\ scores = << >>
    /\ counters = << >>
    /\ out = {}

\* and an environment that sets no OSSMK_ variable
ScoringIdle ==
    /\ EngineIdle
    /\ env = [OSSMK_EXCLUDE_BOTS |-> Unset]

\* ----------------------------------------------------------------- inputs
Event(id, kind, repo_id, user_id, created_at) ==
    [id |-> id, kind |-> kind, repo_id |-> repo_id, user_id |-> user_id,
     created_at |-> created_at]

RuleSet(dimensions, fairness, half_life, mode, window) ==
    [dimensions |-> dimensions, fairness |-> fairness,
     decay_half_life_days |-> half_life, decay_mode |-> mode,
     decay_window_days |-> window]

NoEnv ==
    [OSSMK_SELF_REPO_PENALTY |-> Unset, OSSMK_USER_ORGS |-> Unset,
     OSSMK_ORG_REPO_PENALTY |-> Unset, OSSMK_DECAY_HALF_LIFE_DAYS |-> Unset,
     OSSMK_DECAY_MODE |-> Unset, OSSMK_DECAY_WINDOW_DAYS |-> Unset]

\* every list of 1..n elements of S
Lists(S, n) == UNION {[1..k -> S] : k \in 1..n}

\* the instant of hour h of day d
At(d, h) == d * HoursPerDay + h

\* the wall clock of the runs: day 20, 23:00 UTC
Now0 == At(20, 23)

U1 == << "u1" >>

U2 == << "u2" >>

RepoOther == Str(<< "g", "/", "x", "/", "r" >>)

RepoSelf == Str(<< "g", "/", "U1", "/", "r" >>)

RepoOrg == Str(<< "g", "/", "Org", "/", "r" >>)

RepoShort == Str(<< "u1", "/", "r" >>)

RepoShortOrg == Str(<< "org", "/", "r" >>)

RepoBare == Str(<< "u1" >>)

RepoEmpty == Str(<< >>)

\* 10:00 UTC of day 20, written in UTC
Today == DateTime(At(20, 10), 0)

\* 10:00 UTC of day 19, written in UTC
Yesterday == DateTime(At(19, 10), 0)

\* 20:00 UTC of day 20, written at +09:00 (05:00 of day 21)
TodayEast == DateTime(At(20, 20), 9)

\* 23:00 UTC of day 19, written at +09:00 (08:00 of day 20)
YesterdayEast == DateTime(At(19, 23), 9)

\* 23:00 UTC of day 10, written in UTC: 10 days before Now0
TenDaysAgo == DateTime(At(10, 23), 0)

Init0 ==
    /\ pc = "start"
    /\ idx = 1
    /\ cfg = Configure(default_rules, NoEnv)
    /\ scores = Empty
    /\ counters = Empty
    /\ out = {}
    /\ StorageIdle
    /\ HttpIdle
    /\ TasksIdle
    /\ GraphqlIdle
    /\ RetryIdle
    /\ AggregateIdle
    /\ SinceIdle
    /\ UpdateIdle
    /\ AnalyseIdle
    /\ ListingIdle
    /\ LimiterIdle

\* ---------------------------------------------------------------- actions
\* score.py 75-97: the reads of the rule set and the environment
ReadConfig ==
    /\ pc = "start"
    /\ cfg' = Configure(rules, env)
    /\ pc' = "loop"
    /\ UNCHANGED << inputs, idx, scores, counters, out, outside_scoring >>

\* score.py 98-140: one iteration of `for ev in events`
ScoreEvent ==
    /\ pc = "loop"
    /\ idx <= Len(events)
    /\ LET st == Accumulate([scores |-> scores, counters |-> counters, raised |-> FALSE],
                            events[idx], rules, cfg, env, now)
       IN  /\ scores' = st.scores
           /\ counters' = st.counters
           /\ pc' = IF st.raised THEN "raised" ELSE "loop"
    /\ idx' = idx + 1
    /\ UNCHANGED << inputs, cfg, out, outside_scoring >>

\* score.py 141-146: flatten and return
Return ==
    /\ pc = "loop"
    /\ idx > Len(events)
    /\ out' = Flatten(scores)
    /\ pc' = "done"
    /\ UNCHANGED << inputs, idx, cfg, scores, counters, outside_scoring >>

Next == ReadConfig \/ ScoreEvent \/ Return

\* --------------------------------------------------- inputs of the checks
\* one dimension over commits and pull requests, commits at 0.8
CodeDims ==
    [code |-> [kinds |-> {"pr", "commit"}, weight |-> 10,
               weights_by_kind |-> [commit |-> 8]]]

\* two dimensions that both list commits
TwoDims ==
    [code |-> [kinds |-> {"pr", "commit"}, weight |-> 10,
               weights_by_kind |-> [commit |-> 8]],
     activity |-> [kinds |-> {"commit", "pr", "issue"}, weight |-> 5]]

\* a rule file may give any float as a weight
NegDims == [code |-> [kinds |-> {"pr", "commit"}, weight |-> -10]]

\* a dimension that declares its own daily cap for commits
OverrideDims ==
    [code |-> [kinds |-> {"pr", "commit"}, weight |-> 10,
               weights_by_kind |-> [commit |-> 8],
               clip_per_user_day |-> [commit |-> 1]]]

Plain(dimensions, fairness) == RuleSet(dimensions, fairness, 0, NoneStr, 0)

Half == Num(1)

SelfPenaltyEnv == [NoEnv EXCEPT !.OSSMK_SELF_REPO_PENALTY = Half]

\* OSSMK_USER_ORGS=" Org ,"
OrgsText == Text(<< " ", "Org", " ", "," >>)

\* ---- clipping
ClipEvents ==
    {Event("a", "commit", RepoOther, U1, Today),
     Event("b", "commit", RepoSelf, U1, Today),
     Event("c", "commit", RepoOther, U1, Yesterday),
     Event("d", "commit", RepoOther, U2, Today),
     Event("e", "pr", RepoOther, U1, Today)}

ClipFairness ==
    {[commit |-> c, pr |-> 1] : c \in 0..MaxCap} \cup {[pr |-> MaxCap]}

ClipRules ==
    {Plain(d, f) : d \in {CodeDims, TwoDims, NegDims, OverrideDims}, f \in ClipFairness}

\* n commits of one user on one day
Burst(n) == [i \in 1..n |-> Event("a", "commit", RepoOther, U1, Today)]

\* one event of every kind by one user, and a pull request by another
MixedEvents ==
    {Event("a", "commit", RepoOther, U1, Today),
     Event("p", "pr", RepoOther, U1, Today),
     Event("i", "issue", RepoOther, U1, Today),
     Event("r", "review", RepoOther, U1, Today),
     Event("q", "pr", RepoOther, U2, Today)}

InitClip ==
    /\ Init0
    /\ now = Now0
    /\ \/ /\ events \in Lists(ClipEvents, MaxEvents)
          /\ rules \in ClipRules
          /\ env \in {NoEnv, SelfPenaltyEnv}
       \/ /\ events \in {Burst(n) : n \in 1..MaxBurst}
          /\ rules = default_rules
          /\ env = NoEnv
       \/ /\ events \in Lists(MixedEvents, MaxEvents)
          /\ rules = default_rules
          /\ env = NoEnv

SpecClip == InitClip /\ [][Next]_vars

\* ---- penalties
PenaltyEvents ==
    {Event("a", "commit", RepoOther, U1, Today),
     Event("b", "commit", RepoSelf, U1, Today),
     Event("c", "commit", RepoOrg, U1, Today),
     Event("d", "commit", RepoShort, U1, Today),
     Event("e", "commit", RepoShortOrg, U1, TenDaysAgo),
     Event("f", "commit", RepoBare, U1, Today),
     Event("g", "commit", RepoEmpty, U1, Today),
     Event("h", "commit", NoneStr, U1, Today),
     Event("i", "pr", RepoSelf, U2, TenDaysAgo)}

PenaltyEnvs ==
    {NoEnv,
     SelfPenaltyEnv,
     [NoEnv EXCEPT !.OSSMK_SELF_REPO_PENALTY = Num(0), !.OSSMK_USER_ORGS = OrgsText,
                   !.OSSMK_ORG_REPO_PENALTY = Half],
     [NoEnv EXCEPT !.OSSMK_SELF_REPO_PENALTY = Text(<< "half" >>),
                   !.OSSMK_USER_ORGS = OrgsText],
     [NoEnv EXCEPT !.OSSMK_USER_ORGS = OrgsText, !.OSSMK_ORG_REPO_PENALTY = Num(3)],
     [NoEnv EXCEPT !.OSSMK_SELF_REPO_PENALTY = Num(-1)]}

PenaltyRules ==
    {RuleSet(CodeDims, [commit |-> MaxCap], 0, NoneStr, 0),
     RuleSet(CodeDims, NoFairness, 10, NoneStr, 0),
     RuleSet(NegDims, NoFairness, 0, NoneStr, 0)}

PenaltyNows == {Now0, Now0 + 10 * HoursPerDay}

InitPenalty ==
    /\ Init0
    /\ events \in Lists(PenaltyEvents, MaxEvents - 1)
    /\ rules \in PenaltyRules
    /\ env \in PenaltyEnvs
    /\ now \in PenaltyNows

SpecPenalty == InitPenalty /\ [][Next]_vars

\* ---- time
TimeEvents ==
    {Event("a", "commit", RepoOther, U1, Today),
     Event("b", "commit", RepoOther, U1, TodayEast),
     Event("c", "commit", RepoOther, U1, YesterdayEast),
     Event("d", "commit", RepoOther, U1, TenDaysAgo),
     Event("e", "commit", RepoOther, U1, NoDate),
     Event("f", "pr", RepoOther, U1, TenDaysAgo)}

TimeRules ==
    {RuleSet(CodeDims, [commit |-> c], hl, Str(m), w) :
        c \in 1..MaxCap,
        hl \in {0, 10},
        m \in {<< "exponential" >>, << "Window" >>, << "linear" >>},
        w \in {0, 5}}

InitTime ==
    /\ Init0
    /\ events \in Lists(TimeEvents, MaxEvents)
    /\ rules \in TimeRules
    /\ env = NoEnv
    /\ now = Now0

SpecTime == InitTime /\ [][Next]_vars

Init == InitClip \/ InitPenalty \/ InitTime

Spec == Init /\ [][Next]_vars

\* ---------------------------------------------------------------- storage
MaxBatch == 2

MaxCalls == 2

\* a ContributionEvent with its line counts
Contribution(e, added, removed) ==
    [id |-> e.id, kind |-> e.kind, repo_id |-> e.repo_id, user_id |-> e.user_id,
     created_at |-> e.created_at, lines_added |-> added, lines_removed |-> removed]

\* str(e.created_at): the wall time at the datetime's own offset, and the offset
IsoText(dt) == [tag |-> "text", local |-> dt.inst + dt.off, off |-> dt.off]

\* a TIMESTAMPTZ column keeps the instant alone
TimestampTz(dt) == [tag |-> "timestamptz", inst |-> dt.inst]

\* the tuple save_events makes of an event
EventRow(b, e) ==
    [id |-> e.id, kind |-> e.kind, repo_id |-> e.repo_id, user_id |-> e.user_id,
     created_at |-> IF b = "sqlite" THEN IsoText(e.created_at)
                    ELSE TimestampTz(e.created_at),
     lines_added |-> e.lines_added, lines_removed |-> e.lines_removed,
     source_host |-> "github.com"]

\* INSERT ... that overwrites the row of the same id
InsertOrReplace(tbl, row) == Put(tbl, row.id, row)

\* INSERT OR IGNORE / ON CONFLICT (id) DO NOTHING
InsertOrIgnore(tbl, row) == IF row.id \in DOMAIN tbl THEN tbl ELSE Put(tbl, row.id, row)

\* executemany over the rows, in list order
RECURSIVE InsertEvents(_, _, _)
InsertEvents(tbl, b, evs) ==
    IF evs = << >> THEN tbl
    ELSE InsertEvents(InsertOrIgnore(tbl, EventRow(b, Head(evs))), b, Tail(evs))

\* s.get("window", "all")
ScoreWindow(s) == IF "window" \in DOMAIN s THEN s.window ELSE "all"

\* the value of generated_at: the text 'now' in SQLite, now() in Postgres
GeneratedAt(b, t) ==
    IF b = "sqlite" THEN [tag |-> "text", text |-> "now"]
    ELSE [tag |-> "timestamptz", inst |-> t]

\* the tuple save_scores makes of a score record
ScoreRow(b, s, t) ==
    [user_id |-> s.user_id, dimension |-> s.dimension, value |-> s.value,
     window |-> ScoreWindow(s), generated_at |-> GeneratedAt(b, t)]

ScoreKey(row) == << row.user_id, row.dimension, row.window >>

\* INSERT that leaves the row of a key already there
UpsertKeep(tbl, row) == IF ScoreKey(row) \in DOMAIN tbl THEN tbl ELSE Put(tbl, ScoreKey(row), row)

\* INSERT ... ON CONFLICT (user_id, dimension, window) DO UPDATE SET value,
\* generated_at
Upsert(tbl, row) ==
    IF ScoreKey(row) \in DOMAIN tbl
    THEN [tbl EXCEPT ![ScoreKey(row)].value = row.value,
                     ![ScoreKey(row)].generated_at = row.generated_at]
    ELSE Put(tbl, ScoreKey(row), row)

RECURSIVE UpsertScores(_, _, _, _)
UpsertScores(tbl, b, recs, t) ==
    IF recs = << >> THEN tbl
    ELSE UpsertScores(Upsert(tbl, ScoreRow(b, Head(recs), t)), b, Tail(recs), t)

\* ---- inputs
\* two events of one id that differ in every other column, and a third event
StoredEvents ==
    {Contribution(Event("a", "commit", RepoOther, U1, TodayEast), 0, 0),
     Contribution(Event("a", "pr", RepoSelf, U2, Yesterday), 5, 1),
     Contribution(Event("b", "commit", RepoOther, U1, Today), 0, 0)}

\* score records: two values of one key, one of them with no window given,
\* and the same (user, dimension) in another window
StoredScores ==
    {[user_id |-> U1, dimension |-> "code", value |-> 16, window |-> "all"],
     [user_id |-> U1, dimension |-> "code", value |-> 8],
     [user_id |-> U1, dimension |-> "code", value |-> 4, window |-> "90d"]}

\* every list of 0..n elements of S
Batches(S, n) == {<< >>} \cup Lists(S, n)

InitStorage ==
    /\ ScoringIdle
    /\ HttpIdle
    /\ TasksIdle
    /\ GraphqlIdle
    /\ RetryIdle
    /\ AggregateIdle
    /\ SinceIdle
    /\ UpdateIdle
    /\ AnalyseIdle
    /\ ListingIdle
    /\ LimiterIdle
    /\ backend \in {"sqlite", "postgres"}
    /\ ossmk_events = << >>
    /\ ossmk_scores = << >>
    /\ clock = 1
    /\ saved = 0
    /\ event_calls = << >>
    /\ score_calls = << >>

\* ---- actions
\* sqlite.py 108-132, postgres.py 57-91: save_events(evs)
SaveEvents ==
    /\ Len(event_calls) < MaxCalls
    /\ \E evs \in Batches(StoredEvents, MaxBatch) :
          /\ ossmk_events' = InsertEvents(ossmk_events, backend, evs)
          /\ saved' = Len(evs)
          /\ event_calls' = Append(event_calls, evs)
    /\ clock' = clock + 1
    /\ UNCHANGED << outside_storage, backend, ossmk_scores, score_calls >>

\* sqlite.py 134-149, postgres.py 94-117: save_scores(recs)
SaveScores ==
    /\ Len(score_calls) < MaxCalls
    /\ \E recs \in Batches(StoredScores, MaxBatch) :
          /\ ossmk_scores' = UpsertScores(ossmk_scores, backend, recs, clock)
          /\ saved' = Len(recs)
          /\ score_calls' = Append(score_calls, recs)
    /\ clock' = clock + 1
    /\ UNCHANGED << outside_storage, backend, ossmk_events, event_calls >>

NextEvents == SaveEvents

SpecEvents == InitStorage /\ [][NextEvents]_vars

NextScores == SaveScores

SpecScores == InitStorage /\ [][NextScores]_vars

\* ------------------------------------------------------------ REST client
MaxPages == 2

\* the versions the forge can serve a page in
Versions == {"v1", "v2"}

\* the elements of a sequence
Range(q) == {q[i] : i \in 1..Len(q)}

\* ---- the forge
\* base_url of fetch_repo_issues_and_prs
BaseUrl == << "issues?state=all&per_page=100" >>

\* the URL of page p of the listing, as the forge writes it in its Link header
PageUrl(p) == IF p = 1 THEN BaseUrl ELSE BaseUrl \o << "&page=", ToString(p) >>

\* the page a URL of the listing asks for
PageOf(u) ==
    IF Len(u) = 1 THEN 1 ELSE CHOOSE p \in 2..(MaxPages + 1) : ToString(p) = u[3]

\* one element of the JSON array of a page
Item(id, pull_request, login, created_at) ==
    [id |-> id, pull_request |-> pull_request, login |-> login, created_at |-> created_at]

\* the login of a bot account
Bot == << "dependabot", "[bot]" >>

\* the items of page p in version v: two in v1, one in v2, the work of a bot
Items(p, v) ==
    IF v = "v1"
    THEN << Item(10 * p + 1, TRUE, Str(U1), Today), Item(10 * p + 2, FALSE, NoneStr, Yesterday) >>
    ELSE << Item(10 * p + 3, TRUE, Str(Bot), Today) >>

\* resp.text of a JSON array
Body(items) == [json |-> items]

\* json.loads(body)
Loads(body) == body.json

ETag(v) == Str(<< "W/", v >>)

LastModified(v) == Str(<< "modified-", v >>)

\* one link of a Link header
LinkTo(u, rel) == << "<" >> \o u \o << ">", ";", " ", rel >>

RECURSIVE Join(_)
Join(links) ==
    IF Len(links) = 0 THEN << >>
    ELSE IF Len(links) = 1 THEN links[1]
    ELSE links[1] \o << ",", " " >> \o Join(Tail(links))

\* the Link header of page p of n: prev, next, last, first, as the forge
\* orders them; none for a listing of one page
LinkHeader(p, n) ==
    LET links ==
            (IF p > 1 THEN << LinkTo(PageUrl(p - 1), "rel=\"prev\"") >> ELSE << >>)
            \o (IF p < n THEN << LinkTo(PageUrl(p + 1), "rel=\"next\""),
                                 LinkTo(PageUrl(n), "rel=\"last\"") >> ELSE << >>)
            \o (IF p > 1 THEN << LinkTo(PageUrl(1), "rel=\"first\"") >> ELSE << >>)
    IN  IF links = << >> THEN NoneStr ELSE Str(Join(links))

\* what http_get can come back with
Response(status, etag, last_modified, link, text) ==
    [raised |-> FALSE, status_code |-> status, etag |-> etag,
     last_modified |-> last_modified, link |-> link, text |-> text]

\* httpx.HTTPError out of http_get, its attempts used up
TransportError ==
    [raised |-> TRUE, status_code |-> 0, etag |-> NoneStr, last_modified |-> NoneStr,
     link |-> NoneStr, text |-> Body(<< >>)]

\* the answers of a forge of n pages to a GET of u with If-None-Match inm:
\* 200 with the page in some version, with or without validators; 304, with
\* no body and no Link, to a conditional request; 404; 500; no answer
Outcomes(n, u, inm) ==
    {Response(200, IF tagged THEN ETag(v) ELSE NoneStr,
              IF tagged THEN LastModified(v) ELSE NoneStr,
              LinkHeader(PageOf(u), n), Body(Items(PageOf(u), v))) :
        v \in Versions, tagged \in BOOLEAN}
    \cup (IF Truthy(inm)
          THEN {Response(304, inm, NoneStr, NoneStr, Body(<< >>))} ELSE {})
    \cup {Response(st, NoneStr, NoneStr, NoneStr, Body(<< >>)) : st \in {404, 500}}
    \cup {TransportError}

\* ---- utils
\* the URL of the first link of the header, whatever its rel
parse_link_first(link_header) ==
    IF ~Truthy(link_header) THEN NoneStr
    ELSE LET q == Strip(Split(link_header.s, ",", -1)[1])
         IN  Str(SubSeq(q, Find(q, "<", 1) + 1, Find(q, ">", 1) - 1))

\* parse_link_next(link_header)
parse_link_next(link_header) ==
    IF ~Truthy(link_header) THEN NoneStr
    ELSE LET split == Split(link_header.s, ",", -1)
             parts == [i \in 1..Len(split) |-> Strip(split[i])]
             start(q) == Find(q, "<", 1)
             end(q) == Find(q, ">", start(q) + 1)
             hits == {i \in 1..Len(parts) :
                         /\ "rel=\"next\"" \in Range(parts[i])
                         /\ start(parts[i]) # 0
                         /\ end(parts[i]) # 0}
         IN  IF hits = {} THEN NoneStr
             ELSE LET q == parts[CHOOSE i \in hits : \A j \in hits : i <= j]
                  IN  Str(SubSeq(q, start(q) + 1, end(q) - 1))

\* ---- HttpCache
NoEntry == [none |-> TRUE]

Entry(etag, last_modified, body, fetched_at) ==
    [none |-> FALSE, etag |-> etag, last_modified |-> last_modified, body |-> body,
     fetched_at |-> fetched_at]

\* HttpCache.get(url)
CacheGet(c, u) == IF u \in DOMAIN c THEN c[u] ELSE NoEntry

\* a write that lands the validators of the new entry on the body of the old
CacheSetTorn(c, u, entry) ==
    Put(c, u, IF u \in DOMAIN c THEN [entry EXCEPT !.body = c[u].body] ELSE entry)

\* HttpCache.set(url, etag, last_modified, body, fetched_at): REPLACE INTO
CacheSet(c, u, entry) == Put(c, u, entry)

\* ---- GitHubProvider
\* a client that never makes its request conditional
IfNoneMatchNever(cached) == NoneStr

\* the If-None-Match header of _cached_get_json, None when it sets none
IfNoneMatch(cached) ==
    IF ~cached.none /\ Truthy(cached.etag) THEN cached.etag ELSE NoneStr

\* a cached GET that stores whatever comes back, a 304 or an error included
CachedGetJsonStoreAll(c, u, o, t) ==
    [raised |-> o.raised \/ o.status_code \notin 200..299,
     cache |-> Put(c, u, [none |-> FALSE, etag |-> o.etag,
                          last_modified |-> o.last_modified, body |-> o.text,
                          fetched_at |-> t]),
     data |-> Loads(o.text),
     next_url |-> NoneStr]

\* _cached_get_json(client, url) when http_get comes back with o at time t:
\* [raised, cache, data, next_url]
CachedGetJson(c, u, o, t) ==
    LET cached == CacheGet(c, u)
        raise == [raised |-> TRUE, cache |-> c, data |-> << >>, next_url |-> NoneStr]
    IN  IF o.raised THEN raise
        ELSE IF o.status_code = 304 /\ ~cached.none
        THEN [raised |-> FALSE, cache |-> c, data |-> Loads(cached.body),
              next_url |-> parse_link_next(o.link)]
        ELSE IF o.status_code \notin 200..299 THEN raise
        ELSE [raised |-> FALSE,
              cache |-> CacheSet(c, u, Entry(o.etag, o.last_modified, o.text, t)),
              data |-> Loads(o.text),
              next_url |-> parse_link_next(o.link)]

\* repo_id of the events of repo x/r
RepoId == Str(<< "github.com", "/", "x", "/", "r" >>)

\* the ContributionEvent fetch_repo_issues_and_prs makes of an item
IssueOrPr(item) ==
    Contribution(Event(ToString(item.id),
                       IF item.pull_request THEN "pr" ELSE "issue",
                       RepoId,
                       IF Truthy(item.login) THEN item.login.s ELSE << "unknown" >>,
                       item.created_at), 0, 0)

EventsOf(data) == [i \in 1..Len(data) |-> IssueOrPr(data[i])]

\* ---- actions
scoring_but_now == << events, rules, env, pc, idx, cfg, scores, counters, out >>

\* client.py 86-92: fetch_repo_issues_and_prs is called, first on an empty
\* cache and then once more
FetchBegin ==
    /\ \/ fetch.phase = "original" /\ fetch.pc = "idle" /\ fetch' = [phase |-> "original",
             pc |-> "loop", url |-> BaseUrl, events |-> << >>]
       \/ fetch.phase = "original" /\ fetch.pc \in {"returned", "raised"}
          /\ fetch' = [phase |-> "replay", pc |-> "loop", url |-> BaseUrl, events |-> << >>]
    /\ UNCHANGED << server, cache, calls, results, now, scoring_but_now, storage, tasks, graphql, retrying, fanout, parsing, updating, analysing, listing, limiting >>

\* client.py 93-113 with 46-64: one turn of `while True`, a cached GET of url
\* and the events of its items, then the next URL or the return
FetchPage ==
    /\ fetch.pc = "loop"
    /\ LET headers == IfNoneMatch(CacheGet(cache, fetch.url)) IN
       \E o \in Outcomes(server, fetch.url, headers) :
          LET got == CachedGetJson(cache, fetch.url, o, now)
              evs == fetch.events \o EventsOf(got.data)
          IN  /\ cache' = got.cache
              /\ calls' = Append(calls, [phase |-> fetch.phase, url |-> fetch.url,
                                         if_none_match |-> headers, resp |-> o,
                                         raised |-> got.raised, data |-> got.data])
              /\ fetch' = IF got.raised THEN [fetch EXCEPT !.pc = "raised"]
                          ELSE IF ~Truthy(got.next_url)
                          THEN [fetch EXCEPT !.pc = "returned", !.events = evs]
                          ELSE [fetch EXCEPT !.events = evs, !.url = got.next_url.s]
              /\ results' = IF ~got.raised /\ ~Truthy(got.next_url)
                            THEN Put(results, fetch.phase, evs) ELSE results
    /\ now' = now + 1
    /\ UNCHANGED << server, scoring_but_now, storage, tasks, graphql, retrying, fanout, parsing, updating, analysing, listing, limiting >>

InitFetch ==
    /\ ScoringIdle
    /\ StorageIdle
    /\ TasksIdle
    /\ GraphqlIdle
    /\ RetryIdle
    /\ AggregateIdle
    /\ SinceIdle
    /\ UpdateIdle
    /\ AnalyseIdle
    /\ ListingIdle
    /\ LimiterIdle
    /\ server \in 1..MaxPages
    /\ cache = << >>
    /\ fetch = [phase |-> "original", pc |-> "idle", url |-> << >>, events |-> << >>]
    /\ calls = << >>
    /\ results = << >>

NextFetch == FetchBegin \/ FetchPage

SpecFetch == InitFetch /\ [][NextFetch]_vars

\* ------------------------------------------- concurrent cached GETs
MaxGets == 2

\* the fetches that share the cache
Tasks == {"t1", "t2"}

\* a cached GET that, answered 304, reads the cache again for the body
CachedGetJsonAsyncReread(c, cached, u, o, t) ==
    LET raise == [raised |-> TRUE, cache |-> c, wrote |-> {}, data |-> << >>,
                  next_url |-> NoneStr]
        entry == Entry(o.etag, o.last_modified, o.text, t)
    IN  IF o.raised THEN raise
        ELSE IF o.status_code = 304 /\ ~cached.none
        THEN [raised |-> FALSE, cache |-> c, wrote |-> {},
              data |-> Loads(CacheGet(c, u).body),
              next_url |-> parse_link_next(o.link)]
        ELSE IF o.status_code \notin 200..299 THEN raise
        ELSE [raised |-> FALSE, cache |-> CacheSet(c, u, entry), wrote |-> {entry},
              data |-> Loads(o.text), next_url |-> parse_link_next(o.link)]

\* _cached_get_json_async from the resumption after `await http_get_async`,
\* which came back with o at time t, `cached` being what the cache held
\* before the await: [raised, cache, wrote, data, next_url]
CachedGetJsonAsync(c, cached, u, o, t) ==
    LET raise == [raised |-> TRUE, cache |-> c, wrote |-> {}, data |-> << >>,
                  next_url |-> NoneStr]
        entry == Entry(o.etag, o.last_modified, o.text, t)
    IN  IF o.raised THEN raise
        ELSE IF o.status_code = 304 /\ ~cached.none
        THEN [raised |-> FALSE, cache |-> c, wrote |-> {}, data |-> Loads(cached.body),
              next_url |-> parse_link_next(o.link)]
        ELSE IF o.status_code \notin 200..299 THEN raise
        ELSE [raised |-> FALSE, cache |-> CacheSet(c, u, entry), wrote |-> {entry},
              data |-> Loads(o.text), next_url |-> parse_link_next(o.link)]

\* client.py 69-73: the cache is read, the headers are made and the request
\* is sent; the task waits for the response
GetBegin(t) ==
    /\ gets[t].pc = "idle"
    /\ gets[t].n < MaxGets
    /\ gets' = [gets EXCEPT ![t].pc = "awaiting",
                            ![t].cached = CacheGet(cache, BaseUrl)]
    /\ UNCHANGED << written, http, now, scoring_but_now, storage, retrying, graphql, fanout, parsing, updating, analysing, listing, limiting >>

\* client.py 73-84: the response is there; the body comes from the entry read
\* before the wait or the entry is replaced
GetEnd(t) ==
    /\ gets[t].pc = "awaiting"
    /\ \E o \in Outcomes(server, BaseUrl, IfNoneMatch(gets[t].cached)) :
          LET got == CachedGetJsonAsync(cache, gets[t].cached, BaseUrl, o, now)
          IN  /\ cache' = got.cache
              /\ written' = written \cup got.wrote
              /\ gets' = [gets EXCEPT ![t].pc = "idle", ![t].n = @ + 1,
                                      ![t].ret = [raised |-> got.raised,
                                                  data |-> got.data]]
    /\ now' = now + 1
    /\ UNCHANGED << server, fetch, calls, results, scoring_but_now, storage, retrying, graphql, fanout, parsing, updating, analysing, listing, limiting >>

InitCache ==
    /\ ScoringIdle
    /\ StorageIdle
    /\ HttpIdle
    /\ GraphqlIdle
    /\ RetryIdle
    /\ AggregateIdle
    /\ SinceIdle
    /\ UpdateIdle
    /\ AnalyseIdle
    /\ ListingIdle
    /\ LimiterIdle
    /\ gets = [t \in Tasks |->
                  [pc |-> "idle", n |-> 0, cached |-> NoEntry,
                   ret |-> [raised |-> FALSE, data |-> << >>]]]
    /\ written = {}

NextCache == \E t \in Tasks : GetBegin(t) \/ GetEnd(t)

SpecCache == InitCache /\ [][NextCache]_vars

\* ---------------------------------------------------------------- GraphQL
MaxPosts == 4

\* max_reviews of fetch_repo_reviews_graphql_async
DefaultMaxReviews == 1000

\* the paginated GraphQL fetches: fetch_user_contributions_graphql_async,
\* fetch_repo_commits_graphql_async, fetch_repo_reviews_graphql_async
GraphqlOps == {"search", "commits", "reviews"}

\* ---- the forge
Cursor(k) == Str(<< "cursor", ToString(k) >>)

\* the page the forge serves for a value of `after`
PageAfter(after) ==
    IF after.none THEN 1
    ELSE 1 + CHOOSE k \in 1..MaxPages : Cursor(k) = after

\* the nodes of page k of a connection: two search hits; two commits, one of
\* them of a bot; one pull request with two reviews
Nodes(op, k) ==
    CASE op = "search" ->
            << [id |-> << "PR_", ToString(k) >>, repo |-> Str(<< "x", "/", "r" >>),
                login |-> Str(U2), at |-> Today],
               [id |-> << "I_", ToString(k) >>, repo |-> NoneStr,
                login |-> NoneStr, at |-> Yesterday] >>
      [] op = "commits" ->
            << [id |-> << "sha", ToString(k) >>, login |-> Str(U1), at |-> Today],
               [id |-> << "bot", ToString(k) >>, login |-> Str(Bot), at |-> Today] >>
      [] OTHER ->
            << [number |-> k,
                reviews |-> << [id |-> << "PRR_", ToString(k) >>, login |-> Str(U1),
                                at |-> Today],
                               [id |-> << "PRR_b", ToString(k) >>, login |-> NoneStr,
                                at |-> Yesterday] >>] >>

\* the answer of a forge of n pages to a query whose variables carry `after`
GraphqlPage(op, n, after) ==
    LET k == PageAfter(after)
    IN  [status_code |-> 200, nodes |-> Nodes(op, k),
         hasNextPage |-> k < n, endCursor |-> Cursor(k)]

\* a page; a 200 whose "data" is null, read as a page of no node and no
\* pageInfo; a 500
GraphqlOutcomes(op, n, after) ==
    {GraphqlPage(op, n, after),
     [status_code |-> 200, nodes |-> << >>, hasNextPage |-> FALSE, endCursor |-> NoneStr],
     [status_code |-> 500, nodes |-> << >>, hasNextPage |-> FALSE, endCursor |-> NoneStr]}

\* ---- utils
\* is_bot_login(login)
is_bot_login(login) ==
    LET lower_login == Lower(login)
    IN  /\ login # << >>
        /\ \/ lower_login \in {<< "dependabot" >>, << "github-actions" >>,
                               << "renovate", "[bot]" >>, << "renovate" >>}
           \/ lower_login[Len(lower_login)] \in {"[bot]", "-bot"}
           \/ "[bot]" \in Range(lower_login)

\* os.getenv("OSSMK_EXCLUDE_BOTS", "1") == "1"
ExcludeBots(e) ==
    e.OSSMK_EXCLUDE_BOTS = Unset \/ e.OSSMK_EXCLUDE_BOTS = Text(<< "1" >>)

\* ---- GitHubProvider
\* the `after` of the variables of a request: the commit history query has no
\* such variable
AfterSent(op, after) == IF op = "commits" THEN NoneStr ELSE after

\* the text of str(n) of a search node
NodeText(n) == Range(n.id) \cup Range(n.repo.s) \cup Range(n.login.s)

\* the events of the nodes of one page
NodeEvent(op, n, login) ==
    CASE op = "search" ->
            Contribution(Event(n.id,
                               IF "PullRequest" \in NodeText(n) THEN "pr" ELSE "issue",
                               Str(<< "github.com", "/" >>
                                   \o (IF Truthy(n.repo) THEN n.repo.s
                                       ELSE << "unknown", "/", "unknown" >>)),
                               IF Truthy(n.login) THEN n.login.s ELSE login,
                               n.at), 0, 0)
      [] op = "commits" ->
            Contribution(Event(n.id, "commit", RepoId,
                               IF Truthy(n.login) THEN n.login.s ELSE << "unknown" >>,
                               n.at), 0, 0)
      [] OTHER ->
            Contribution(Event(n.id, "review", RepoId,
                               IF Truthy(n.login) THEN n.login.s ELSE << "unknown" >>,
                               n.at), 0, 0)

\* the nodes an event is made of: every search hit; the commits and the
\* reviews that the bot filter lets through
RECURSIVE Flat(_)
Flat(prs) == IF prs = << >> THEN << >> ELSE Head(prs).reviews \o Flat(Tail(prs))

Kept(op, nodes, e) ==
    LET all == IF op = "reviews" THEN Flat(nodes) ELSE nodes
        user(n) == IF Truthy(n.login) THEN n.login.s ELSE << "unknown" >>
    IN  IF op = "search" THEN all
        ELSE SelectSeq(all, LAMBDA n : ~(ExcludeBots(e) /\ is_bot_login(user(n))))

\* the reviews taken before total reaches max_reviews
Capped(op, nodes, total, max_reviews) ==
    IF op = "reviews" /\ Len(nodes) > max_reviews - total
    THEN SubSeq(nodes, 1, max_reviews - total) ELSE nodes

\* ---- actions
\* client.py 341-363, 398-424, 464-487: a GraphQL fetch is called
GraphqlBegin ==
    /\ gql.pc = "idle"
    /\ \E op \in GraphqlOps :
          gql' = [op |-> op, pc |-> "loop", after |-> NoneStr, events |-> << >>,
                  total |-> 0]
    /\ UNCHANGED << posts, server, cache, fetch, calls, results, now, scoring_but_now,
                    storage, retrying, tasks, fanout, parsing, updating, analysing, listing, limiting >>

\* client.py 364-395, 425-461, 488-532: one turn of `while True`, a POST of
\* the query and the events of its nodes, then the cursor or the return
GraphqlPost ==
    /\ gql.pc = "loop"
    /\ Len(posts) < MaxPosts
    /\ LET sent == AfterSent(gql.op, gql.after) IN
       \E o \in GraphqlOutcomes(gql.op, server, sent) :
          LET kept == Capped(gql.op, Kept(gql.op, o.nodes, env), gql.total,
                             DefaultMaxReviews)
              evs == gql.events
                     \o [i \in 1..Len(kept) |-> NodeEvent(gql.op, kept[i], U1)]
              total == IF gql.op = "reviews" THEN gql.total + Len(kept) ELSE gql.total
          IN  /\ posts' = Append(posts, sent)
              /\ gql' =
                    IF o.status_code \notin 200..299 THEN [gql EXCEPT !.pc = "raised"]
                    ELSE IF ~o.hasNextPage
                            \/ (gql.op = "reviews" /\ total >= DefaultMaxReviews)
                    THEN [gql EXCEPT !.pc = "returned", !.events = evs, !.total = total]
                    ELSE [gql EXCEPT !.events = evs, !.total = total,
                                     !.after = o.endCursor]
    /\ UNCHANGED << server, cache, fetch, calls, results, now, scoring_but_now,
                    storage, retrying, tasks, fanout, parsing, updating, analysing, listing, limiting >>

InitGraphql ==
    /\ EngineIdle
    /\ env \in {[OSSMK_EXCLUDE_BOTS |-> v] : v \in {Unset, Text(<< "1" >>), Text(<< "0" >>)}}
    /\ StorageIdle
    /\ TasksIdle
    /\ server \in 1..MaxPages
    /\ cache = << >>
    /\ fetch = [phase |-> "original", pc |-> "idle", url |-> << >>, events |-> << >>]
    /\ calls = << >>
    /\ results = << >>
    /\ GraphqlIdle
    /\ RetryIdle
    /\ AggregateIdle
    /\ SinceIdle
    /\ UpdateIdle
    /\ AnalyseIdle
    /\ ListingIdle
    /\ LimiterIdle

NextGraphql == GraphqlBegin \/ GraphqlPost

SpecGraphql == InitGraphql /\ [][NextGraphql]_vars

\* ------------------------------------------------------- retries and pages
MaxEpoch == 20

\* stop_after_attempt(5)
StopAfterAttempt == 5

\* wait_exponential(multiplier=1, min=1, max=10)
WaitMin == 1

WaitMax == 10

\* the seconds of the epoch a header can name
Epochs == 0..MaxEpoch

\* ---- the forge
\* a 429 or a 403, with the X-RateLimit-Reset header the forge gave it
RateLimited(status, reset) ==
    [raised |-> FALSE, status_code |-> status, etag |-> NoneStr,
     last_modified |-> NoneStr, link |-> NoneStr, text |-> Body(<< >>),
     reset |-> reset]

\* the values of X-RateLimit-Reset at second t: no header, the second to
\* come, the second gone by, a text that is no number
Resets(t) ==
    {NoneStr, Str(<< ToString(t + 1) >>), Str(<< ToString(t - 1) >>), Str(<< "soon" >>)}

\* the httpx.HTTPError that request k of a call fails with
RequestError(k) == [raised |-> TRUE, attempt |-> k]

\* what request k of a GET of u, sent at second t, comes back with: an
\* answer of the listing, a rate limit, or no answer
Answers(n, u, inm, t, k) ==
    (Outcomes(n, u, inm) \ {TransportError})
    \cup {RateLimited(st, r) : st \in {429, 403}, r \in Resets(t)}
    \cup {RequestError(k)}

\* ---- utils
\* reset.isdigit()
IsDigit(s) == s # << >> /\ \A i \in 1..Len(s) : s[i] \in {ToString(n) : n \in Epochs}

\* int(reset)
IntOf(s) == CHOOSE n \in Epochs : ToString(n) = s[1]

\* resp.headers.get("X-RateLimit-Reset")
RateLimitReset(resp) == IF "reset" \in DOMAIN resp THEN resp.reset ELSE NoneStr

\* a policy that gives up one attempt later
StopLater(k) == k >= StopAfterAttempt + 1

\* stop_after_attempt(5), asked after attempt k
StopAfter(k) == k >= StopAfterAttempt

\* retry_if_exception_type(httpx.HTTPError), asked of the outcome of an attempt
ShouldRetry(o) == o.raised

\* wait_exponential(multiplier=1, min=1, max=10) after attempt k
WaitExponential(k) ==
    LET result == Pow2(k - 1)
        capped == IF result < WaitMax THEN result ELSE WaitMax
    IN  IF capped > WaitMin THEN capped ELSE WaitMin

\* a sleep that ends at the reset second itself
WaitSecondsToReset(reset, t) == reset - t

\* wait_s of http_get_async
WaitSeconds(reset, t) == (IF reset - t > 0 THEN reset - t ELSE 0) + 1

\* the 429 and 403 that http_get_async sleeps on
SleepsOn(resp) ==
    /\ resp.status_code \in {429, 403}
    /\ Truthy(RateLimitReset(resp))
    /\ IsDigit(RateLimitReset(resp).s)

\* ---- GitHubProvider
\* the ContributionEvent _fetch_repo_commits_async makes of an item
CommitOf(item) ==
    Contribution(Event(ToString(item.id), "commit", RepoId,
                       IF Truthy(item.login) THEN item.login.s ELSE << "unknown" >>,
                       item.created_at), 0, 0)

CommitsOf(data) == [i \in 1..Len(data) |-> CommitOf(data[i])]

NoResult == [none |-> TRUE]

\* a call of http_get or http_get_async that has sent nothing yet; `cached`
\* is what _cached_get_json read from the cache before the call
NewRequest(fn, u, cached) ==
    [fn |-> fn, pc |-> "attempt", url |-> u, cached |-> cached, sent |-> << >>,
     slept |-> << >>, result |-> NoResult]

\* ---- actions
\* client.py 86-93, 253-266 with 46-52, 66-73: fetch_repo_issues_and_prs
\* ("sync") or _fetch_repo_commits_async ("async") is called and its first
\* cached GET calls http_get or http_get_async
PagedBegin ==
    /\ pfetch.pc = "idle"
    /\ \E mode \in {"sync", "async"} :
          /\ pfetch' = [mode |-> mode, pc |-> "awaiting", events |-> << >>,
                        trace |-> << >>]
          /\ req' = NewRequest(IF mode = "sync" THEN "http_get" ELSE "http_get_async",
                               BaseUrl, CacheGet(cache, BaseUrl))
    /\ UNCHANGED << epoch, http, now, scoring_but_now, storage, tasks, graphql, fanout, parsing, updating, analysing, listing, limiting >>

\* utils 113-120: one attempt of http_get; a response is returned, an
\* httpx.HTTPError is waited on and retried, or raised after the last attempt
HttpGetAttempt ==
    /\ req.fn = "http_get"
    /\ req.pc = "attempt"
    /\ LET k == Len(req.sent) + 1 IN
       \E o \in Answers(server, req.url, IfNoneMatch(req.cached), epoch, k) :
          LET sent == Append(req.sent, [at |-> epoch, o |-> o])
          IN  IF ~ShouldRetry(o)
              THEN /\ req' = [req EXCEPT !.pc = "returned", !.sent = sent, !.result = o]
                   /\ epoch' = epoch
              ELSE IF StopAfter(k)
              THEN /\ req' = [req EXCEPT !.pc = "raised", !.sent = sent, !.result = o]
                   /\ epoch' = epoch
              ELSE /\ req' = [req EXCEPT !.sent = sent,
                                         !.slept = Append(@, WaitExponential(k))]
                   /\ epoch' = epoch + WaitExponential(k)
    /\ UNCHANGED << pfetch, http, now, scoring_but_now, storage, tasks, graphql, fanout, parsing, updating, analysing, listing, limiting >>

\* utils 123-132: the first request of http_get_async; on a 429 or a 403
\* with a numeric X-RateLimit-Reset the call sleeps wait_s seconds
HttpGetAsyncFirst ==
    /\ req.fn = "http_get_async"
    /\ req.pc = "attempt"
    /\ \E o \in Answers(server, req.url, IfNoneMatch(req.cached), epoch, 1) :
          LET sent == Append(req.sent, [at |-> epoch, o |-> o])
          IN  IF o.raised
              THEN /\ req' = [req EXCEPT !.pc = "raised", !.sent = sent, !.result = o]
                   /\ epoch' = epoch
              ELSE IF SleepsOn(o)
              THEN LET wait_s == WaitSeconds(IntOf(RateLimitReset(o).s), epoch)
                   IN  /\ req' = [req EXCEPT !.pc = "second", !.sent = sent,
                                             !.slept = Append(@, wait_s)]
                       /\ epoch' = epoch + wait_s
              ELSE /\ req' = [req EXCEPT !.pc = "returned", !.sent = sent, !.result = o]
                   /\ epoch' = epoch
    /\ UNCHANGED << pfetch, http, now, scoring_but_now, storage, tasks, graphql, fanout, parsing, updating, analysing, listing, limiting >>

\* utils 133-135: the request http_get_async sends after its sleep
HttpGetAsyncSecond ==
    /\ req.fn = "http_get_async"
    /\ req.pc = "second"
    /\ \E o \in Answers(server, req.url, IfNoneMatch(req.cached), epoch, 2) :
          req' = [req EXCEPT !.pc = IF o.raised THEN "raised" ELSE "returned",
                             !.sent = Append(@, [at |-> epoch, o |-> o]),
                             !.result = o]
    /\ UNCHANGED << epoch, pfetch, http, now, scoring_but_now, storage, tasks, graphql, fanout, parsing, updating, analysing, listing, limiting >>

\* client.py 53-64, 74-84 with 93-113, 267-292: the call is over; the rest
\* of the cached GET and of the turn of `while True`, then the cached GET of
\* the next URL or the return
PagedResume ==
    /\ pfetch.pc = "awaiting"
    /\ req.pc \in {"returned", "raised"}
    /\ LET got == IF pfetch.mode = "sync"
                  THEN CachedGetJson(cache, req.url, req.result, epoch)
                  ELSE CachedGetJsonAsync(cache, req.cached, req.url, req.result, epoch)
           evs == pfetch.events \o (IF pfetch.mode = "sync" THEN EventsOf(got.data)
                                    ELSE CommitsOf(got.data))
           trace == Append(pfetch.trace, [url |-> req.url, sent |-> req.sent,
                                          slept |-> req.slept])
       IN  /\ cache' = got.cache
           /\ pfetch' = IF got.raised
                        THEN [pfetch EXCEPT !.pc = "raised", !.trace = trace]
                        ELSE IF ~Truthy(got.next_url)
                        THEN [pfetch EXCEPT !.pc = "returned", !.events = evs,
                                            !.trace = trace]
                        ELSE [pfetch EXCEPT !.events = evs, !.trace = trace]
           /\ req' = IF ~got.raised /\ Truthy(got.next_url)
                     THEN NewRequest(req.fn, got.next_url.s,
                                     CacheGet(got.cache, got.next_url.s))
                     ELSE req
    /\ UNCHANGED << epoch, server, fetch, calls, results, now, scoring_but_now, storage,
                    tasks, graphql, fanout, parsing, updating, analysing, listing, limiting >>

InitRetry ==
    /\ ScoringIdle
    /\ StorageIdle
    /\ TasksIdle
    /\ GraphqlIdle
    /\ server \in 1..MaxPages
    /\ cache = << >>
    /\ fetch = [phase |-> "original", pc |-> "idle", url |-> << >>, events |-> << >>]
    /\ calls = << >>
    /\ results = << >>
    /\ RetryIdle
    /\ AggregateIdle
    /\ SinceIdle
    /\ UpdateIdle
    /\ AnalyseIdle
    /\ ListingIdle
    /\ LimiterIdle

NextRetry ==
    PagedBegin \/ HttpGetAttempt \/ HttpGetAsyncFirst \/ HttpGetAsyncSecond \/ PagedResume

SpecRetry == InitRetry /\ [][NextRetry]_vars

\* ------------------------------------------------------ per-user aggregates
MaxRepos == 3

\* os.getenv("OSSMK_CONCURRENCY", "5"), and conc = 5 when int() raises
DefaultConcurrency == 5

\* min(conc, 20)
MaxConcurrency == 20

\* asyncio.Semaphore(5) of the provider of the package
PackageConcurrency == 5

\* max_repos of the aggregates
DefaultMaxRepos == 20

\* the two GitHubProvider classes: of client.py and of the package itself
Providers == {"client", "package"}

\* ---- the forge
\* full_name of the i-th repo of the user
RepoName(i) == << "x", "/", ToString(i) >>

\* the one event of a listing (issues, commits, reviews) of the i-th repo
RepoEvent(i, kind) ==
    Contribution(Event(<< kind, ToString(i) >>, kind,
                       Str(<< "github.com", "/" >> \o RepoName(i)), U1, Today), 0, 0)

\* how a fetch of one listing of a repo ends: its events; HTTPStatusError out
\* of raise_for_status on a 4xx or a 5xx; an httpx.HTTPError of the transport
RepoFetches(i, kind) ==
    {[raised |-> FALSE, error |-> "", events |-> << RepoEvent(i, kind) >>],
     [raised |-> TRUE, error |-> "HTTPStatusError", events |-> << >>],
     [raised |-> TRUE, error |-> "ConnectError", events |-> << >>]}

\* how fetch_user_repos ends for a user of n repos.  The provider of the
\* package iterates over the tuple that _cached_get_json returns, not over
\* its data, and item.get raises AttributeError on the list
UserRepos(provider, n) ==
    {[raised |-> TRUE, error |-> "HTTPStatusError", repos |-> 0],
     [raised |-> TRUE, error |-> "ConnectError", repos |-> 0],
     IF provider = "package"
     THEN [raised |-> TRUE, error |-> "AttributeError", repos |-> 0]
     ELSE [raised |-> FALSE, error |-> "", repos |-> n]}

\* ---- GitHubProvider
\* int(text) for the texts that are integers, none otherwise
IntText(s) ==
    LET ints == {n \in -1..(MaxConcurrency + 5) : s = << ToString(n) >>}
    IN  IF ints = {} THEN [none |-> TRUE, n |-> 0]
        ELSE [none |-> FALSE, n |-> CHOOSE n \in ints : TRUE]

\* conc of fetch_user_contributions_async
Concurrency(e) ==
    LET v == e.OSSMK_CONCURRENCY
    IN  IF v.kind = "unset" THEN DefaultConcurrency
        ELSE IF IntText(v.s).none THEN DefaultConcurrency
        ELSE IntText(v.s).n

\* a semaphore that takes no account of the environment
SemaphoreFixed(provider, e) == DefaultConcurrency

\* the value the semaphore is made with
SemaphoreValue(provider, e) ==
    IF provider = "package" THEN PackageConcurrency
    ELSE LET conc == Concurrency(e)
             least == IF conc < MaxConcurrency THEN conc ELSE MaxConcurrency
         IN  IF least > 1 THEN least ELSE 1

\* repos[:max_repos], repos being counted
Sliced(n, max_repos) == IF n < max_repos THEN n ELSE max_repos

\* a task that extends the list after each fetch
FetchRepoEager(evs, o1, o2, o0) ==
    evs \o o1.events \o (IF o1.raised THEN << >>
                         ELSE o2.events \o (IF o2.raised THEN << >> ELSE o0.events))

\* fetch_repo(repo) of the async aggregate from the first await on: the list
\* after the task, given how the commits, reviews and issues fetches end
FetchRepo(evs, o1, o2, o0) ==
    IF o1.raised \/ o2.raised \/ o0.raised THEN evs
    ELSE evs \o o0.events \o o1.events \o o2.events

\* one turn of `for repo in repos` of the sync aggregate: the list after it
\* and the exception that leaves the try, "" when none does
TryRepo(evs, o0, o1, o2) ==
    [events |-> evs \o o0.events
                \o (IF o0.raised THEN << >>
                    ELSE o1.events \o (IF o1.raised THEN << >> ELSE o2.events)),
     error |-> IF o0.raised THEN o0.error
               ELSE IF o1.raised THEN o1.error
               ELSE IF o2.raised THEN o2.error ELSE ""]

\* ---- actions
\* client.py 209-215, 225-236, 250; __init__.py 149-159, 261-268: an
\* aggregate is called; it lists the repos of the user, and the async one
\* makes its semaphore and gathers one task per repo
AggBegin ==
    /\ agg.pc = "idle"
    /\ \E provider \in Providers,
          fn \in {"fetch_user_contributions", "fetch_user_contributions_async"},
          n \in 0..MaxRepos :
       \E o \in UserRepos(provider, n) :
          LET repos == Sliced(o.repos, DefaultMaxRepos)
          IN  /\ agg' = [provider |-> provider, fn |-> fn,
                         pc |-> IF o.raised THEN "raised"
                                ELSE IF repos = 0 THEN "returned"
                                ELSE IF fn = "fetch_user_contributions" THEN "loop"
                                ELSE "gathering",
                         listed |-> ~o.raised, repos |-> repos, i |-> 1,
                         events |-> << >>, error |-> o.error]
              /\ jobs' = [i \in 1..repos |-> [pc |-> "waiting", e1 |-> << >>]]
              /\ sem' = IF fn = "fetch_user_contributions_async" /\ ~o.raised
                        THEN SemaphoreValue(provider, env) ELSE sem
    /\ UNCHANGED << scoring, storage, http, tasks, graphql, retrying, parsing, updating, analysing, listing, limiting >>

\* client.py 216-223: one turn of the loop of fetch_user_contributions, and
\* the return after the last
SyncRepo ==
    /\ agg.fn = "fetch_user_contributions"
    /\ agg.pc = "loop"
    /\ \E o0 \in RepoFetches(agg.i, "issue"), o1 \in RepoFetches(agg.i, "commit"),
          o2 \in RepoFetches(agg.i, "review") :
          LET try == TryRepo(agg.events, o0, o1, o2)
              caught == try.error \in {"", "HTTPStatusError"}
          IN  /\ agg' = [agg EXCEPT !.events = try.events,
                                    !.error = IF caught THEN "" ELSE try.error,
                                    !.i = IF caught THEN @ + 1 ELSE @,
                                    !.pc = IF ~caught THEN "raised"
                                           ELSE IF agg.i = agg.repos THEN "returned"
                                           ELSE "loop"]
              /\ jobs' = [jobs EXCEPT ![agg.i].pc = IF try.error = "" THEN "done"
                                                   ELSE "failed"]
    /\ UNCHANGED << sem, scoring, storage, http, tasks, graphql, retrying, parsing, updating, analysing, listing, limiting >>

\* client.py 238-241: the task of repo i enters the semaphore and awaits the
\* commits of the repo
Acquire(i) ==
    /\ agg.pc = "gathering"
    /\ i \in DOMAIN jobs
    /\ jobs[i].pc = "waiting"
    /\ sem > 0
    /\ sem' = sem - 1
    /\ jobs' = [jobs EXCEPT ![i].pc = "commits"]
    /\ UNCHANGED << agg, scoring, storage, http, tasks, graphql, retrying, parsing, updating, analysing, listing, limiting >>

\* client.py 241-242, 247-248: the commits fetch is over; the task awaits the
\* reviews, or returns on an exception and leaves the semaphore
CommitsDone(i) ==
    /\ agg.pc = "gathering"
    /\ i \in DOMAIN jobs
    /\ jobs[i].pc = "commits"
    /\ \E o1 \in RepoFetches(i, "commit") :
          /\ jobs' = [jobs EXCEPT ![i] = IF o1.raised THEN [pc |-> "failed", e1 |-> << >>]
                                         ELSE [pc |-> "reviews", e1 |-> o1.events]]
          /\ sem' = IF o1.raised THEN sem + 1 ELSE sem
    /\ UNCHANGED << agg, scoring, storage, http, tasks, graphql, retrying, parsing, updating, analysing, listing, limiting >>

\* client.py 242-248: the reviews fetch is over; the task fetches the issues
\* without an await, extends the list and leaves the semaphore
ReviewsDone(i) ==
    /\ agg.pc = "gathering"
    /\ i \in DOMAIN jobs
    /\ jobs[i].pc = "reviews"
    /\ \E o2 \in RepoFetches(i, "review"), o0 \in RepoFetches(i, "issue") :
          LET o1 == [raised |-> FALSE, error |-> "", events |-> jobs[i].e1]
          IN  /\ agg' = [agg EXCEPT !.events = FetchRepo(@, o1, o2, o0)]
              /\ jobs' = [jobs EXCEPT ![i].pc = IF o2.raised \/ o0.raised THEN "failed"
                                                ELSE "done"]
    /\ sem' = sem + 1
    /\ UNCHANGED << scoring, storage, http, tasks, graphql, retrying, parsing, updating, analysing, listing, limiting >>

\* client.py 250-251: every task is over and the aggregate returns the list
Gathered ==
    /\ agg.pc = "gathering"
    /\ \A i \in DOMAIN jobs : jobs[i].pc \in {"done", "failed"}
    /\ agg' = [agg EXCEPT !.pc = "returned"]
    /\ UNCHANGED << sem, jobs, scoring, storage, http, tasks, graphql, retrying, parsing, updating, analysing, listing, limiting >>

\* the values of OSSMK_CONCURRENCY
Concurrencies ==
    {Unset, Text(<< "1" >>), Text(<< "2" >>), Text(<< "0" >>), Text(<< "25" >>),
     Text(<< "many" >>)}

InitAggregate ==
    /\ EngineIdle
    /\ env \in {[OSSMK_EXCLUDE_BOTS |-> Unset, OSSMK_CONCURRENCY |-> v] :
                   v \in Concurrencies}
    /\ StorageIdle
    /\ HttpIdle
    /\ TasksIdle
    /\ GraphqlIdle
    /\ RetryIdle
    /\ AggregateIdle
    /\ SinceIdle
    /\ UpdateIdle
    /\ AnalyseIdle
    /\ ListingIdle
    /\ LimiterIdle

NextAggregate ==
    \/ AggBegin
    \/ SyncRepo
    \/ \E i \in 1..MaxRepos : Acquire(i) \/ CommitsDone(i) \/ ReviewsDone(i)
    \/ Gathered

SpecAggregate == InitAggregate /\ [][NextAggregate]_vars

\* ----------------------------------------------------------- since parser
MaxSince == 3

\* ---- the texts
\* an ISO-8601 date-time: the hour its wall clock shows and its zone, << >>
\* for a naive one
IsoDate(local, zone) == << "iso:", ToString(local) >> \o zone

\* s.endswith(c)
EndsWith(s, c) == s # << >> /\ s[Len(s)] = c

\* s[:-1]
ButLast(s) == SubSeq(s, 1, Len(s) - 1)

\* Optional[int]
NoneInt == [none |-> TRUE, n |-> 0]

SomeInt(n) == [none |-> FALSE, n |-> n]

\* dateutil's isoparse(s) at a time when no date lies beyond hour t: the
\* datetime, naive or aware, or ValueError
IsoParse(s, t) ==
    LET hours == IF Len(s) \in {2, 3} /\ s[1] = "iso:"
                 THEN {n \in 0..t : ToString(n) = s[2]} ELSE {}
        zone == IF Len(s) = 3 THEN s[3] ELSE "z"
        local == CHOOSE n \in hours : TRUE
        off == IF zone = "+01:00" THEN 1 ELSE 0
    IN  IF hours = {} \/ zone \notin {"z", "+01:00"}
        THEN [raised |-> TRUE, naive |-> FALSE, dt |-> NoDate]
        ELSE [raised |-> FALSE, naive |-> Len(s) = 2, dt |-> DateTime(local - off, off)]

\* ---- utils
\* parse_since(since, max_days) at hour t: None, the ISO text of an instant,
\* or the lowered input when nothing parses it
parse_since(since, max_days, t) ==
    IF ~Truthy(since) THEN [kind |-> "none"]
    ELSE LET s == Lower(Strip(since.s))
             relative(c) == EndsWith(s, c) /\ IsDigit(ButLast(s))
         IN  IF relative("d")
             THEN [kind |-> "iso",
                   text |-> IsoText(DateTime(t - IntOf(ButLast(s)) * HoursPerDay, 0))]
             ELSE IF relative("h")
             THEN [kind |-> "iso", text |-> IsoText(DateTime(t - IntOf(ButLast(s)), 0))]
             ELSE LET parsed == IsoParse(s, t)
                      dt == IF parsed.naive THEN DateTime(parsed.dt.inst, 0) ELSE parsed.dt
                      earliest == DateTime(t - max_days.n * HoursPerDay, 0)
                  IN  IF parsed.raised THEN [kind |-> "raw", s |-> s]
                      ELSE IF ~max_days.none /\ dt.inst < earliest.inst
                      THEN [kind |-> "iso", text |-> IsoText(earliest)]
                      ELSE [kind |-> "iso", text |-> IsoText(dt)]

\* ---- inputs
\* relative and absolute texts that reach back up to MaxSince days, a text
\* with blanks and capitals, a text that is no date, the empty text and None
Sinces(t) ==
    {NoneStr, Str(<< >>), Str(<< "yesterday" >>), Str(<< " ", "2", "D", " " >>)}
    \cup {Str(<< ToString(n), "d" >>) : n \in 0..MaxSince}
    \cup {Str(<< ToString(n), "h" >>) : n \in {1, HoursPerDay - 4}}
    \cup {Str(IsoDate(t - n * HoursPerDay, zone)) :
             n \in 0..MaxSince, zone \in {<< >>, << "Z" >>, << "+01:00" >>}}

MaxDays == {NoneInt} \cup {SomeInt(m) : m \in 0..(MaxSince - 1)}

\* ---- actions
\* utils 138-166: parse_since runs
ParseSince ==
    /\ call.pc = "called"
    /\ call' = [call EXCEPT !.pc = "returned",
                            !.ret = parse_since(call.arg, call.max_days, call.at)]
    /\ UNCHANGED << scoring, storage, http, tasks, graphql, retrying, fanout, updating, analysing, listing, limiting >>

InitSince ==
    /\ ScoringIdle
    /\ StorageIdle
    /\ HttpIdle
    /\ TasksIdle
    /\ GraphqlIdle
    /\ RetryIdle
    /\ AggregateIdle
    /\ UpdateIdle
    /\ AnalyseIdle
    /\ ListingIdle
    /\ LimiterIdle
    /\ call \in {[arg |-> a, max_days |-> m, at |-> Now0, pc |-> "called",
                  ret |-> [kind |-> "none"]] : a \in Sinces(Now0), m \in MaxDays}

NextSince == ParseSince

SpecSince == InitSince /\ [][NextSince]_vars

\* ------------------------------------------------------------ update quota
\* analyze.py 59-112: backend_update_user, run by several callers for one
\* user.  The policy functions it imports from storage.postgres
\* (upsert_user, can_perform_update, record_update_usage, get_latest_total,
\* save_snapshot, insert_growth_points) are modelled from the storage
\* section of the specification: plain reads and writes of the tables
\* users, update_usage, snapshots and growth_points.  A call's statements
\* after the analysis run in one step with the commit that ends its
\* `with pg_connect(dsn) as conn` block.
MaxUpdates == 3

\* N of "at most N manual updates per user per rolling window"
UpdateLimit == 1

Callers == 1..MaxUpdates

\* the user_id and github_login arguments
InternalId == << "id-1" >>

GithubLogin == U1

\* upsert_user(conn, user_id, github_login, is_paid)
upsert_user(tbl, user_id) == tbl \cup {user_id}

\* can_perform_update(conn, user_id, kind): (allowed, reason, used, limit)
can_perform_update(usage, kind) ==
    [allowed |-> kind # "manual" \/ usage < UpdateLimit,
     reason |-> IF kind # "manual" \/ usage < UpdateLimit THEN "" ELSE "quota_exceeded",
     used |-> usage,
     limit |-> UpdateLimit]

\* record_update_usage(conn, user_id, kind)
record_update_usage(usage) == usage + 1

\* the sum of the values of a list of score records
RECURSIVE TotalOf(_)
TotalOf(recs) == IF recs = << >> THEN 0 ELSE Head(recs).value + TotalOf(Tail(recs))

\* save_snapshot(conn, user_id, scores)
save_snapshot(tbl, recs) == Append(tbl, TotalOf(recs))

\* get_latest_total(conn, user_id): 0 before the first snapshot
get_latest_total(tbl) == IF tbl = << >> THEN 0 ELSE tbl[Len(tbl)]

\* insert_growth_points(conn, user_id, points, prev_total, new_total)
insert_growth_points(tbl, points, prev_total, new_total) ==
    Append(tbl, [points |-> points, prev_total |-> prev_total, new_total |-> new_total])

\* max(0.0, x) without the clamp
Unclamped(x) == x

\* max(0.0, x)
Max0(x) == IF x > 0 THEN x ELSE 0

\* analyze.py 30-56: what analyze_github_user returns for the forge's data,
\* the score records of the login; the fetch or the scoring may raise
Analyses ==
    {[raised |-> TRUE, scores |-> << >>],
     [raised |-> FALSE, scores |-> << >>],
     [raised |-> FALSE,
      scores |-> << [user_id |-> GithubLogin, dimension |-> "code", value |-> 8,
                     window |-> "all"] >>],
     [raised |-> FALSE,
      scores |-> << [user_id |-> GithubLogin, dimension |-> "code", value |-> 16,
                     window |-> "all"],
                    [user_id |-> GithubLogin, dimension |-> "review", value |-> 4,
                     window |-> "all"] >>]}

\* analyze.py 91: [dict(s, user_id=user_id) for s in result.scores]
Rewritten(recs, user_id) == [i \in DOMAIN recs |-> [recs[i] EXCEPT !.user_id = user_id]]

NoCall == [pc |-> "idle", manual |-> TRUE, used |-> 0, limit |-> 0, result |-> << >>,
           ret |-> [ok |-> FALSE]]

\* ---- actions
\* analyze.py 73-83: the schema, the user row and the policy check
UpdateBegin(c) ==
    /\ upd[c].pc = "idle"
    /\ \E manual \in BOOLEAN :
          LET chk == can_perform_update(update_usage, IF manual THEN "manual" ELSE "auto")
          IN  upd' = [upd EXCEPT ![c] =
                  [pc |-> IF chk.allowed THEN "analysing" ELSE "returned",
                   manual |-> manual, used |-> chk.used, limit |-> chk.limit,
                   result |-> << >>,
                   ret |-> IF chk.allowed THEN [ok |-> FALSE]
                           ELSE [ok |-> FALSE, reason |-> chk.reason, used |-> chk.used,
                                 limit |-> chk.limit]]]
    /\ users' = upsert_user(users, InternalId)
    /\ UNCHANGED << scoring, storage, http, tasks, graphql, retrying, fanout, parsing,
                    update_usage, snapshots, growth_points, analysed, analysing, listing, limiting >>

\* analyze.py 86: analyze_github_user(github_login, ..., api="auto")
UpdateAnalyse(c) ==
    /\ upd[c].pc = "analysing"
    /\ \E a \in Analyses :
          upd' = [upd EXCEPT ![c].pc = IF a.raised THEN "raised" ELSE "persisting",
                             ![c].result = a.scores]
    /\ analysed' = analysed + 1
    /\ UNCHANGED << scoring, storage, http, tasks, graphql, retrying, fanout, parsing,
                    users, update_usage, snapshots, growth_points, analysing, listing, limiting >>

\* analyze.py 88-112: totals, scores, snapshot, points, usage and the result
UpdatePersist(c) ==
    /\ upd[c].pc = "persisting"
    /\ LET prev_total == get_latest_total(snapshots)
           recs == Rewritten(upd[c].result, InternalId)
           snaps == save_snapshot(snapshots, recs)
           new_total == get_latest_total(snaps)
           delta == Max0(new_total - prev_total)
       IN  /\ ossmk_scores' = UpsertScores(ossmk_scores, backend, recs, clock)
           /\ snapshots' = snaps
           /\ growth_points' = IF delta > 0
                               THEN insert_growth_points(growth_points, delta, prev_total,
                                                         new_total)
                               ELSE growth_points
           /\ update_usage' = IF upd[c].manual THEN record_update_usage(update_usage)
                              ELSE update_usage
           /\ upd' = [upd EXCEPT ![c].pc = "returned",
                                 ![c].ret = [ok |-> TRUE, prev_total |-> prev_total,
                                             new_total |-> new_total,
                                             awarded_points |-> delta,
                                             usage |-> [used |-> IF upd[c].manual
                                                                 THEN upd[c].used + 1
                                                                 ELSE upd[c].used,
                                                        limit |-> upd[c].limit]]]
    /\ clock' = clock + 1
    /\ UNCHANGED << scoring, http, tasks, graphql, retrying, fanout, parsing,
                    backend, ossmk_events, saved, event_calls, score_calls,
                    users, analysed, analysing, listing, limiting >>

InitUpdate ==
    /\ ScoringIdle
    /\ HttpIdle
    /\ TasksIdle
    /\ GraphqlIdle
    /\ RetryIdle
    /\ AggregateIdle
    /\ SinceIdle
    /\ AnalyseIdle
    /\ ListingIdle
    /\ LimiterIdle
    /\ backend = "postgres"
    /\ ossmk_events = << >>
    /\ ossmk_scores = << >>
    /\ clock = 1
    /\ saved = 0
    /\ event_calls = << >>
    /\ score_calls = << >>
    /\ upd = [c \in Callers |-> NoCall]
    /\ users = {}
    /\ update_usage = 0
    /\ snapshots = << >>
    /\ growth_points = << >>
    /\ analysed = 0

NextUpdate == \E c \in Callers : UpdateBegin(c) \/ UpdateAnalyse(c) \/ UpdatePersist(c)

SpecUpdate == InitUpdate /\ [][NextUpdate]_vars

\* ------------------------------------------------------------ analyze modes
\* analyze.py 30-56: analyze_github_user on the provider object of the
\* package, ossmk.providers.github.provider
Apis == {"rest", "graphql", "auto"}

EventKinds == {"pr", "issue", "commit", "review"}

\* the contribution of one kind that the forge holds for the login, in the
\* login's first repo
ForgeEvent(kind) == RepoEvent(1, kind)

\* a set of kinds as a list in the order given
RECURSIVE KindList(_, _)
KindList(order, S) ==
    IF order = << >> THEN << >>
    ELSE (IF Head(order) \in S THEN << Head(order) >> ELSE << >>) \o KindList(Tail(order), S)

\* providers/github/__init__.py 285-329: one POST with the aliases prs and
\* issues; the nodes of prs become pr events, then the nodes of issues issue
\* events; raise_for_status raises on a 4xx or a 5xx
MinimalGraphql(kinds) ==
    {[raised |-> TRUE, error |-> "HTTPStatusError", events |-> << >>],
     [raised |-> FALSE, error |-> "",
      events |-> [i \in DOMAIN KindList(<< "pr", "issue" >>, kinds) |->
                     ForgeEvent(KindList(<< "pr", "issue" >>, kinds)[i])]]}

\* providers/github/__init__.py 156-169 and 261-283: both aggregates list
\* the repos first, outside any try
RestAggregate(kinds) ==
    {[raised |-> o.raised, error |-> o.error, events |-> << >>] :
        o \in {u \in UserRepos("package", 1) : u.raised}}
    \cup {[raised |-> FALSE, error |-> "",
           events |-> [i \in DOMAIN KindList(<< "pr", "issue", "commit", "review" >>, kinds)
                          |-> ForgeEvent(KindList(<< "pr", "issue", "commit", "review" >>,
                                                   kinds)[i])]] :
             o \in {u \in UserRepos("package", 1) : ~u.raised}}

\* analyze.py 36-42: the fetch of each mode
Collect(api, kinds) == IF api = "graphql" THEN MinimalGraphql(kinds) ELSE RestAggregate(kinds)

NoRun == [pc |-> "called", events |-> << >>, out |-> {}, error |-> ""]

\* ---- actions
\* analyze.py 36-42
AnalyseFetch(api) ==
    /\ api \in DOMAIN run
    /\ run[api].pc = "called"
    /\ \E o \in Collect(api, forge) :
          run' = [run EXCEPT ![api].pc = IF o.raised THEN "raised" ELSE "fetched",
                             ![api].events = o.events,
                             ![api].error = o.error]
    /\ UNCHANGED << scoring, storage, http, tasks, graphql, retrying, fanout, parsing,
                    updating, forge, listing, limiting >>

\* analyze.py 43-56: load_rules("default"), score_events and the result
AnalyseScore(api) ==
    /\ api \in DOMAIN run
    /\ run[api].pc = "fetched"
    /\ LET r == score_events(run[api].events, default_rules, NoEnv, Now0)
       IN  run' = [run EXCEPT ![api].pc = IF r.raised THEN "raised" ELSE "returned",
                              ![api].out = r.out]
    /\ UNCHANGED << scoring, storage, http, tasks, graphql, retrying, fanout, parsing,
                    updating, forge, listing, limiting >>

InitAnalyse ==
    /\ ScoringIdle
    /\ StorageIdle
    /\ HttpIdle
    /\ TasksIdle
    /\ GraphqlIdle
    /\ RetryIdle
    /\ AggregateIdle
    /\ SinceIdle
    /\ UpdateIdle
    /\ ListingIdle
    /\ LimiterIdle
    /\ forge \in SUBSET EventKinds
    /\ run = [api \in Apis |-> NoRun]

NextAnalyse == \E api \in Apis : AnalyseFetch(api) \/ AnalyseScore(api)

SpecAnalyse == InitAnalyse /\ [][NextAnalyse]_vars

\* ------------------------------------------------------------ repo listing
\* client.py 202-207 and providers/github/__init__.py 149-154:
\* fetch_user_repos, and the cut of the aggregates that call it
MaxRepoPages == 3

\* the repos on one page of /users/{login}/repos
ListPageSize == 2

\* the full names on page p of a listing of `pages` pages
RepoPage(p) == [i \in 1..ListPageSize |-> RepoName((p - 1) * ListPageSize + i)]

\* the repos that login owns on a forge that lists them in `pages` pages
RECURSIVE OwnedRepos(_)
OwnedRepos(pages) == IF pages = 0 THEN << >> ELSE OwnedRepos(pages - 1) \o RepoPage(pages)

\* what _cached_get_json returns for the first URL of the listing: the
\* items of page 1 and the URL of page 2 when there is one
FirstRepoPage(pages) ==
    [data |-> RepoPage(1),
     next_url |-> IF pages > 1 THEN Str(<< "repos", "?page=", "2" >>) ELSE NoneStr]

\* fetch_user_repos(login).  client.py unpacks the tuple and keeps its data;
\* the provider of the package iterates over the tuple itself, and item.get
\* raises AttributeError on its first element, the list
fetch_user_repos(provider, pages) ==
    {[raised |-> TRUE, error |-> "HTTPStatusError", names |-> << >>],
     [raised |-> TRUE, error |-> "ConnectError", names |-> << >>],
     IF provider = "package"
     THEN [raised |-> TRUE, error |-> "AttributeError", names |-> << >>]
     ELSE [raised |-> FALSE, error |-> "", names |-> FirstRepoPage(pages).data]}

\* repos[:max_repos]
Cut(names, max_repos) ==
    IF max_repos.none \/ max_repos.n >= Len(names) THEN names
    ELSE SubSeq(names, 1, max_repos.n)

MaxReposArgs ==
    {NoneInt, SomeInt(DefaultMaxRepos)} \cup {SomeInt(n) : n \in 0..(ListPageSize + 1)}

\* ---- actions
\* client.py 212, 228; providers/github/__init__.py 157, 264
ListRepos ==
    /\ lst.pc = "called"
    /\ \E o \in fetch_user_repos(lst.provider, lst.pages) :
          lst' = [lst EXCEPT !.pc = IF o.raised THEN "raised" ELSE "listed",
                             !.names = o.names, !.error = o.error]
    /\ UNCHANGED << scoring, storage, http, tasks, graphql, retrying, fanout, parsing,
                    updating, analysing, limiting >>

\* client.py 213-214, 229-230: if max_repos is not None: repos = repos[:max_repos]
CutRepos ==
    /\ lst.pc = "listed"
    /\ lst' = [lst EXCEPT !.pc = "cut", !.names = Cut(lst.names, lst.max_repos)]
    /\ UNCHANGED << scoring, storage, http, tasks, graphql, retrying, fanout, parsing,
                    updating, analysing, limiting >>

InitListing ==
    /\ ScoringIdle
    /\ StorageIdle
    /\ HttpIdle
    /\ TasksIdle
    /\ GraphqlIdle
    /\ RetryIdle
    /\ AggregateIdle
    /\ SinceIdle
    /\ UpdateIdle
    /\ AnalyseIdle
    /\ LimiterIdle
    /\ lst \in {[provider |-> p, pages |-> n, max_repos |-> m, pc |-> "called",
                 names |-> << >>, error |-> ""] :
                   p \in Providers, n \in 1..MaxRepoPages, m \in MaxReposArgs}

NextListing == ListRepos \/ CutRepos

SpecListing == InitListing /\ [][NextListing]_vars

\* ------------------------------------------------------------ rate limiter
\* security/ratelimit.py 7-38: RateLimiter, the in-memory token bucket
MaxTokens == 2

MaxWindow == 2

MaxWall == 4

MaxAcquires == 4

Keys == {"k1", "k2"}

\* self.buckets.get(key, (self.capacity, now + self.window_seconds))
BucketOf(lim, key, t) ==
    IF key \in DOMAIN lim.buckets THEN lim.buckets[key]
    ELSE << lim.capacity, t + lim.window_seconds >>

\* if now >= reset_ts: the bucket is refilled and its window starts again
Refilled(lim, b, t) ==
    IF t >= b[2] THEN << lim.capacity, t + lim.window_seconds >> ELSE b

\* a try_acquire that takes the tokens whether there are enough or not
try_acquire_always(lim, key, tokens, t) ==
    LET b == Refilled(lim, BucketOf(lim, key, t), t)
    IN  [ok |-> b[1] >= tokens,
         buckets |-> Put(lim.buckets, key, << b[1] - tokens, b[2] >>)]

\* try_acquire(key, tokens) at time t: the result and the buckets after it
try_acquire(lim, key, tokens, t) ==
    LET b == Refilled(lim, BucketOf(lim, key, t), t)
    IN  IF b[1] >= tokens
        THEN [ok |-> TRUE, buckets |-> Put(lim.buckets, key, << b[1] - tokens, b[2] >>)]
        ELSE [ok |-> FALSE, buckets |-> Put(lim.buckets, key, b)]

\* a call that begins a window of the key: its first, or one at or after
\* the reset time
BeginsWindow(lim, key, t) == key \notin DOMAIN lim.buckets \/ t >= lim.buckets[key][2]

\* ---- actions
\* ratelimit.py 25-38: try_acquire(key), tokens = 1
TryAcquire(key) ==
    /\ acquired.n < MaxAcquires
    /\ LET r == try_acquire(limiter, key, 1, wall)
           before == IF BeginsWindow(limiter, key, wall) THEN 0 ELSE granted[key]
       IN  /\ limiter' = [limiter EXCEPT !.buckets = r.buckets]
           /\ granted' = Put(granted, key, before + (IF r.ok THEN 1 ELSE 0))
           /\ acquired' = [n |-> acquired.n + 1, key |-> key, ok |-> r.ok]
    /\ UNCHANGED << scoring, storage, http, tasks, graphql, retrying, fanout, parsing,
                    updating, analysing, listing, wall >>

\* time passes between two calls
Elapse ==
    /\ wall < MaxWall
    /\ wall' = wall + 1
    /\ UNCHANGED << scoring, storage, http, tasks, graphql, retrying, fanout, parsing,
                    updating, analysing, listing, limiter, granted, acquired >>

InitLimiter ==
    /\ ScoringIdle
    /\ StorageIdle
    /\ HttpIdle
    /\ TasksIdle
    /\ GraphqlIdle
    /\ RetryIdle
    /\ AggregateIdle
    /\ SinceIdle
    /\ UpdateIdle
    /\ AnalyseIdle
    /\ ListingIdle
    /\ limiter \in {[capacity |-> c, window_seconds |-> w, buckets |-> Empty] :
                       c \in 0..MaxTokens, w \in 0..MaxWindow}
    /\ wall = 0
    /\ granted = Empty
    /\ acquired = [n |-> 0, key |-> "", ok |-> FALSE]

NextLimiter == Elapse \/ \E key \in Keys : TryAcquire(key)

SpecLimiter == InitLimiter /\ [][NextLimiter]_vars

\* ------------------------------------------------------- claims: helpers
\* the elements of evs at the positions in I, in order
RECURSIVE Select(_, _, _)
Select(evs, I, i) ==
    IF i > Len(evs) THEN << >>
    ELSE (IF i \in I THEN << evs[i] >> ELSE << >>) \o Select(evs, I, i + 1)

\* two events of one user, one kind and one day of the engine's day key
SameUserKindDay(e1, e2) ==
    /\ e1.user_id = e2.user_id
    /\ e1.kind = e2.kind
    /\ LocalDate(e1.created_at) = LocalDate(e2.created_at)

\* the positions whose event is among the first `cap` of its (user, kind, day)
WithinCap(evs, fairness) ==
    {i \in 1..Len(evs) :
        \/ evs[i].kind \notin DOMAIN fairness
        \/ Cardinality({j \in 1..i : SameUserKindDay(evs[j], evs[i])})
              <= fairness[evs[i].kind]}

Uncapped(r) == [r EXCEPT !.fairness = NoFairness]

Min(a, b) == IF a < b THEN a ELSE b

\* every record of o1 has a record of o2 for its (user, dimension), of a value
\* not below its own
NotAbove(o1, o2) ==
    \A r \in o1 : \E r0 \in o2 :
        /\ r0.user_id = r.user_id
        /\ r0.dimension = r.dimension
        /\ r.value <= r0.value

\* every weight the rule set can give an event, penalties included, is >= 0
NonNegativeWeights ==
    /\ \A d \in DOMAIN rules.dimensions :
          \A k \in SpecKinds(rules.dimensions[d]) :
              SpecWeight(rules.dimensions[d], k) >= 0
    /\ FloatEnv(env.OSSMK_SELF_REPO_PENALTY, PDen, PDen) >= 0
    /\ FloatEnv(env.OSSMK_ORG_REPO_PENALTY, PDen, PDen) >= 0

\* the events the loop has been through
Seen == SubSeq(events, 1, idx - 1)

\* ------------------------------------------------------------------- C1
\* C1 (daily cap): at every point of the pass the scores are those of the
\* events seen so far that are among the first c of their (user, kind, day),
\* c the global cap of the kind, scored without any cap: no more than c events
\* of a (user, kind, day) contribute and the later ones add nothing.  n
\* same-day commits of one user under the default rules give
\* min(n, 20) * 0.8, 16.0 for n = 25.
C1_DailyCap ==
    /\ pc \in {"loop", "done"} =>
          Flatten(scores) =
             score_events(Select(Seen, WithinCap(Seen, rules.fairness), 1),
                          Uncapped(rules), env, now).out
    /\ pc = "done" => out = Flatten(scores)
    /\ \A n \in 1..MaxBurst :
          pc = "done" /\ events = Burst(n) /\ rules = default_rules /\ env = NoEnv =>
             out = {[user_id |-> U1, dimension |-> "code", window |-> "all",
                     value |-> Min(n, DefaultFairness.commit)
                               * DefaultDimensions.code.weights_by_kind.commit
                               * PDen * PDen * DDen]}

\* a finished pass that dropped an event over the cap and kept another
C1_Witness ==
    /\ pc = "done"
    /\ out # {}
    /\ WithinCap(events, rules.fairness) # 1..Len(events)
    /\ \E i \in WithinCap(events, rules.fairness) : events[i].kind \in DOMAIN rules.fairness

\* ------------------------------------------------------------------- C2
\* C2 (order independence): exchanging two neighbours of the event list, and
\* so any reordering of it, leaves the returned records unchanged.
C2_OrderIndependent ==
    pc = "done" =>
       \A i \in 1..(Len(events) - 1) :
          score_events([events EXCEPT ![i] = events[i + 1], ![i + 1] = events[i]],
                       rules, env, now).out = out

\* ------------------------------------------------------------------- C4
Lowered(r, k, c) == [r EXCEPT !.fairness = [@ EXCEPT ![k] = c]]

\* no score of the run with the cap of kind k lowered to c is above the
\* score of this run
LowerCapNeverRaises ==
    \A k \in DOMAIN rules.fairness :
       \A c \in 0..(rules.fairness[k] - 1) :
          NotAbove(score_events(events, Lowered(rules, k, c), env, now).out, out)

\* C4 as stated (clip monotonicity for any rule set): lowering the cap of a
\* kind never raises a score.
C4_ClipMonotone == pc = "done" => LowerCapNeverRaises

\* C4 (clip monotonicity), amended: when no weight and no penalty factor is
\* negative, lowering the cap of a kind never raises a score.
C4_ClipMonotoneNonNegative == pc = "done" /\ NonNegativeWeights => LowerCapNeverRaises

\* a finished pass with non-negative weights where a lower cap gives a
\* different result
C4_Witness ==
    /\ pc = "done"
    /\ NonNegativeWeights
    /\ \E k \in DOMAIN rules.fairness :
          \E c \in 0..(rules.fairness[k] - 1) :
             score_events(events, Lowered(rules, k, c), env, now).out # out

PenaltiesOff(e) ==
    [e EXCEPT !.OSSMK_SELF_REPO_PENALTY = Unset, !.OSSMK_USER_ORGS = Unset,
              !.OSSMK_ORG_REPO_PENALTY = Unset]

\* both penalty factors, as the engine parses them, lie in [0, 1]
FactorsInUnitInterval ==
    /\ FloatEnv(env.OSSMK_SELF_REPO_PENALTY, PDen, PDen) \in 0..PDen
    /\ FloatEnv(env.OSSMK_ORG_REPO_PENALTY, PDen, PDen) \in 0..PDen

PenalizedNotAbove ==
    NotAbove(out, score_events(events, rules, PenaltiesOff(env), now).out)

\* C5 as stated (penalty bounds): with both factors in [0, 1] every score is
\* at most the score of the same events and rules with the penalties off.
C5_PenaltyBound == pc = "done" /\ FactorsInUnitInterval => PenalizedNotAbove

\* C5 (penalty bounds), amended: with both factors in [0, 1] and no negative
\* weight in the rule set, every score is at most the score of the same
\* events and rules with the penalties off.
C5_PenaltyBoundNonNegative ==
    pc = "done" /\ FactorsInUnitInterval /\ NonNegativeWeights => PenalizedNotAbove

\* a finished pass where a penalty in [0, 1] changed a score
C5_Witness ==
    /\ pc = "done"
    /\ FactorsInUnitInterval
    /\ NonNegativeWeights
    /\ out # score_events(events, rules, PenaltiesOff(env), now).out

\* ------------------------------------------------------------------- C9
Slashes(s) == Cardinality({i \in 1..Len(s) : s[i] = "/"})

\* None, empty, or fewer than two "/"
Malformed(repo_id) == ~Truthy(repo_id) \/ Slashes(repo_id.s) < 2

\* the events with every malformed repo_id replaced by a repo that belongs
\* to no user and no organisation
Neutral(evs) ==
    [i \in 1..Len(evs) |->
        IF Malformed(evs[i].repo_id) THEN [evs[i] EXCEPT !.repo_id = RepoOther]
        ELSE evs[i]]

\* C9 (malformed repo_id): the pass does not raise, and its records are those
\* of the same events with each malformed repo_id replaced by the id of a
\* repo that draws no penalty: the event keeps its full weight in every
\* dimension.
C9_MalformedRepoTolerated ==
    /\ pc # "raised"
    /\ pc = "done" =>
          score_events(Neutral(events), rules, env, now) = [raised |-> FALSE, out |-> out]

\* a finished pass, penalties on, over an event whose malformed repo_id
\* starts with the user's or an organisation's name
C9_Witness ==
    /\ pc = "done"
    /\ out # {}
    /\ cfg.self_repo_penalty < PDen \/ cfg.user_orgs # {}
    /\ \E i \in 1..Len(events) :
          /\ Malformed(events[i].repo_id)
          /\ Truthy(events[i].repo_id)
          /\ \/ Lower(<< events[i].repo_id.s[1] >>) = Lower(events[i].user_id)
                   /\ cfg.self_repo_penalty < PDen
             \/ Lower(<< events[i].repo_id.s[1] >>) \in cfg.user_orgs

\* ------------------------------------------------------------------- C6
NoDecay(r) == [r EXCEPT !.decay_half_life_days = 0, !.decay_window_days = 0]

\* every event is exactly one half-life old
AllOneHalfLifeOld ==
    \A i \in 1..Len(events) :
       /\ events[i].created_at.tag = "dt"
       /\ now - events[i].created_at.inst = cfg.decay_hl * HoursPerDay

\* C6 (exponential decay): in exponential mode with a half-life h > 0, events
\* exactly h days old contribute half of their undecayed weight: every score
\* is half of what the same events score without decay (one commit 10 days
\* old, half_life = 10: 0.4 and not 0.8).
C6_ExponentialDecay ==
    pc = "done" /\ cfg.decay_mode = << "exponential" >> /\ cfg.decay_hl > 0
       /\ AllOneHalfLifeOld =>
          \A r \in out :
             \E r0 \in score_events(events, NoDecay(rules), env, now).out :
                /\ r0.user_id = r.user_id
                /\ r0.dimension = r.dimension
                /\ 2 * r.value = r0.value

\* ------------------------------------------------------------------- C7
\* the positions whose event is at most `window` days old
InWindow(evs, window) ==
    {i \in 1..Len(evs) :
        /\ evs[i].created_at.tag = "dt"
        /\ now - evs[i].created_at.inst <= window * HoursPerDay}

\* C7 (window decay): in window mode with window_days > 0 the records are
\* those of the events that are within their daily cap, counting the events
\* older than the window too, and are not older than the window: an older
\* event adds nothing and still uses up the daily cap.
C7_WindowDecay ==
    pc = "done" /\ cfg.decay_mode = << "window" >> /\ cfg.window_days > 0 =>
       out = score_events(
                Select(events,
                       WithinCap(events, rules.fairness)
                          \cap InWindow(events, cfg.window_days), 1),
                Uncapped(NoDecay(rules)), env, now).out

\* ------------------------------------------------------------------- C8
\* C8 (missing created_at): the pass never raises, whatever the created_at
\* of its events, None included.
C8_MissingDateTolerated == pc # "raised"

\* ------------------------------------------------------------------ C10
\* C10 (UTC day key): the counter an event was counted in holds the number of
\* events seen of its user and kind whose instant falls on the same UTC day:
\* events of one UTC day share a counter, events of two never do.
C10_UtcDayKey ==
    \A i \in 1..Len(Seen) :
       Seen[i].created_at.tag = "dt" /\ Seen[i].kind \in DOMAIN cfg.fair_default
          /\ pc \in {"loop", "done"} =>
          Get(counters, << Seen[i].user_id, Seen[i].kind, DayKey(Seen[i].created_at).key >>)
             = Cardinality({j \in 1..Len(Seen) :
                              /\ Seen[j].created_at.tag = "dt"
                              /\ Seen[j].user_id = Seen[i].user_id
                              /\ Seen[j].kind = Seen[i].kind
                              /\ UtcDate(Seen[j].created_at) = UtcDate(Seen[i].created_at)})

\* ------------------------------------------------------------------ C11
\* the daily caps of dimension d: the global caps, with the caps the
\* dimension declares for itself in their place
DimFairness(r, d) ==
    LET spec == r.dimensions[d]
        own == IF "clip_per_user_day" \in DOMAIN spec
               THEN spec.clip_per_user_day ELSE NoFairness
    IN  [k \in DOMAIN r.fairness \cup DOMAIN own |->
            IF k \in DOMAIN own THEN own[k] ELSE r.fairness[k]]

\* the rule set r with dimension d alone
OnlyDim(r, d) == [r EXCEPT !.dimensions = [x \in {d} |-> r.dimensions[d]]]

\* C11 (per-dimension cap override): the records of every dimension are those
\* of the events among the first c of their (user, kind, day), c being the cap
\* the dimension declares for the kind and the global cap where it declares
\* none.
C11_DimensionCapOverride ==
    pc = "done" =>
       \A d \in DOMAIN rules.dimensions :
          {r \in out : r.dimension = d} =
             score_events(Select(events, WithinCap(events, DimFairness(rules, d)), 1),
                          Uncapped(OnlyDim(rules, d)), env, now).out

\* ------------------------------------------------------------------ C12
\* the sum of f over the positions in I
RECURSIVE SumOver(_, _)
SumOver(I, f) ==
    IF I = {} THEN 0
    ELSE LET i == CHOOSE x \in I : TRUE IN f[i] + SumOver(I \ {i}, f)

\* the positions of evs, within the caps, of user u and of a kind of dimension d
Counted(evs, r, u, d) ==
    {i \in WithinCap(evs, r.fairness) :
        evs[i].user_id = u /\ evs[i].kind \in r.dimensions[d].kinds}

\* the base weight of a kind in a dimension, on the scale of the scores
BaseWeight(spec, kind) ==
    (IF "weights_by_kind" \in DOMAIN spec /\ kind \in DOMAIN spec.weights_by_kind
     THEN spec.weights_by_kind[kind] ELSE spec.weight) * (Unit \div WDen)

Record(u, d, v) == [user_id |-> u, dimension |-> d, value |-> v, window |-> "all"]

\* C12 (weight selection): with no penalty in force, the value of (user,
\* dimension) is the sum, over the unclipped events of the user whose kind the
\* dimension lists, of weights_by_kind[kind] where the dimension has it and of
\* the dimension's weight otherwise; a (user, dimension) no such event touched
\* has no record.  Under the default rules one commit gives code = 0.8, and
\* one pr, one issue and one review of one user give code = 1.0,
\* community = 0.3 and review = 0.6.
C12_WeightSelection ==
    /\ pc \in {"loop", "done"} /\ env = NoEnv =>
          Flatten(scores) =
             {Record(u, d, SumOver(Counted(Seen, rules, u, d),
                                   [i \in 1..Len(Seen) |->
                                       BaseWeight(rules.dimensions[d], Seen[i].kind)])) :
                 << u, d >> \in {k \in {Seen[i].user_id : i \in 1..Len(Seen)}
                                       \X DOMAIN rules.dimensions :
                                    Counted(Seen, rules, k[1], k[2]) # {}}}
    /\ pc = "done" /\ rules = default_rules /\ env = NoEnv =>
          /\ events = << Event("a", "commit", RepoOther, U1, Today) >> =>
                out = {Record(U1, "code", 8 * (Unit \div WDen))}
          /\ /\ Len(events) = 3
             /\ {events[i].kind : i \in 1..3} = {"pr", "issue", "review"}
             /\ \A i \in 1..3 : events[i].user_id = U1
             => out = {Record(U1, "code", Unit), Record(U1, "community", 3 * (Unit \div WDen)),
                       Record(U1, "review", 6 * (Unit \div WDen))}

\* a finished pass under the default rules over a pr, an issue and a review of
\* one user, with a record in each of the three dimensions
C12_Witness ==
    /\ pc = "done"
    /\ rules = default_rules
    /\ Len(events) = 3
    /\ {events[i].kind : i \in 1..3} = {"pr", "issue", "review"}
    /\ {r.dimension : r \in out} = {"code", "community", "review"}

\* ------------------------------------------------------------------ C13
\* the lists of a sequence of lists, joined in order
RECURSIVE Concat(_)
Concat(ls) == IF ls = << >> THEN << >> ELSE Head(ls) \o Concat(Tail(ls))

\* every event ever given to save_events, in the order given
EverSaved == Concat(event_calls)

\* the first event of id `id` in evs
FirstOf(evs, id) ==
    evs[CHOOSE i \in 1..Len(evs) :
            /\ evs[i].id = id
            /\ \A j \in 1..(i - 1) : evs[j].id # id]

\* the instant a stored created_at denotes
Instant(col) == IF col.tag = "text" THEN col.local - col.off ELSE col.inst

\* the row holds the columns of event e
RowOf(row, e) ==
    /\ row.id = e.id
    /\ row.kind = e.kind
    /\ row.repo_id = e.repo_id
    /\ row.user_id = e.user_id
    /\ Instant(row.created_at) = e.created_at.inst
    /\ row.lines_added = e.lines_added
    /\ row.lines_removed = e.lines_removed

\* C13 (event upsert idempotence): after any sequence of save_events calls the
\* table has one row for each id ever saved and no other, the row of an id
\* holds the columns of the first event ever saved with that id, and saving
\* any list E and then E again leaves the rows as the first save of E left
\* them.
C13_FirstEventWins ==
    /\ DOMAIN ossmk_events = {EverSaved[i].id : i \in 1..Len(EverSaved)}
    /\ \A id \in DOMAIN ossmk_events : RowOf(ossmk_events[id], FirstOf(EverSaved, id))
    /\ \A E \in Batches(StoredEvents, MaxBatch) :
          LET once == InsertEvents(ossmk_events, backend, E)
          IN  InsertEvents(once, backend, E) = once

\* two calls, the second of which brought an event of an id the first had
\* stored with other columns; the row holds the columns of the first
C13_Witness ==
    /\ Len(event_calls) = 2
    /\ event_calls[1] # << >>
    /\ \E i \in 1..Len(event_calls[1]), j \in 1..Len(event_calls[2]) :
          /\ event_calls[1][i].id = event_calls[2][j].id
          /\ event_calls[1][i] # event_calls[2][j]
          /\ \A k \in 1..(i - 1) : event_calls[1][k].id # event_calls[1][i].id
          /\ RowOf(ossmk_events[event_calls[1][i].id], event_calls[1][i])

\* ------------------------------------------------------------------ C14
\* the key a score record is saved under; a record with no window is of
\* window 'all'
SavedKey(rec) ==
    << rec.user_id, rec.dimension, IF "window" \in DOMAIN rec THEN rec.window ELSE "all" >>

\* the keys of the records of one call
KeysOf(recs) == {SavedKey(recs[i]) : i \in 1..Len(recs)}

\* the last call that wrote key k
LastCall(k) ==
    CHOOSE c \in 1..Len(score_calls) :
        /\ k \in KeysOf(score_calls[c])
        /\ \A c2 \in (c + 1)..Len(score_calls) : k \notin KeysOf(score_calls[c2])

\* the last record of key k in recs
LastOf(recs, k) ==
    recs[CHOOSE i \in 1..Len(recs) :
            /\ SavedKey(recs[i]) = k
            /\ \A j \in (i + 1)..Len(recs) : SavedKey(recs[j]) # k]

\* C14 (score upsert): after any sequence of save_scores calls the table has
\* one row for each (user_id, dimension, window) ever saved and no other; the
\* value of a row is that of the last record of its key in the last call that
\* had one; and a call leaves the rows of the keys it does not write as they
\* were, generated_at included: on Postgres a row is dated by the last call
\* that wrote its key.
C14_ScoreUpsert ==
    /\ DOMAIN ossmk_scores = UNION {KeysOf(score_calls[c]) : c \in 1..Len(score_calls)}
    /\ \A k \in DOMAIN ossmk_scores :
          LET row == ossmk_scores[k]
          IN  /\ << row.user_id, row.dimension, row.window >> = k
              /\ row.value = LastOf(score_calls[LastCall(k)], k).value
              /\ backend = "postgres" => row.generated_at.inst = LastCall(k)

\* two calls on Postgres: the second wrote a key of the first with another
\* value and left another row of the first call alone
C14_Witness ==
    /\ Len(score_calls) = 2
    /\ backend = "postgres"
    /\ \E k \in KeysOf(score_calls[1]) \cap KeysOf(score_calls[2]) :
          /\ LastOf(score_calls[1], k).value # LastOf(score_calls[2], k).value
          /\ ossmk_scores[k].value = LastOf(score_calls[2], k).value
    /\ \E k \in KeysOf(score_calls[1]) \ KeysOf(score_calls[2]) :
          ossmk_scores[k].generated_at.inst = 1

\* ------------------------------------------------------------------ C15
\* calls i and j are cached GETs of one URL with none of that URL between them
BackToBack(i, j) ==
    /\ i < j
    /\ calls[i].url = calls[j].url
    /\ \A k \in (i + 1)..(j - 1) : calls[k].url # calls[i].url

\* call i received a 200 that carried an ETag
Got200WithETag(i) ==
    /\ ~calls[i].resp.raised
    /\ calls[i].resp.status_code = 200
    /\ Truthy(calls[i].resp.etag)

\* C15 (conditional-GET replay): when a cached GET of a URL received a 200
\* with an ETag, the next cached GET of that URL sends If-None-Match equal to
\* that ETag, and if it is answered 304 it returns the parsed payload the
\* first call returned.
C15_ConditionalReplay ==
    \A i \in 1..Len(calls), j \in 1..Len(calls) :
        BackToBack(i, j) /\ Got200WithETag(i) =>
            /\ calls[j].if_none_match = calls[i].resp.etag
            /\ calls[j].resp.status_code = 304 =>
                  ~calls[j].raised /\ calls[j].data = calls[i].data

\* a 200 with an ETag and a payload, then a 304 for the same URL that returned
\* that payload
C15_Witness ==
    \E i \in 1..Len(calls), j \in 1..Len(calls) :
        /\ BackToBack(i, j)
        /\ Got200WithETag(i)
        /\ calls[j].resp.status_code = 304
        /\ calls[j].data = Loads(calls[i].resp.text)
        /\ calls[j].data # << >>

\* ------------------------------------------------------------------ C16
\* the cached GETs of one fetch
CallsOf(phase) == {i \in 1..Len(calls) : calls[i].phase = phase}

\* C16 (replay from the cache is invisible): a fetch that follows a finished
\* fetch and has every one of its page requests answered 304 returns the
\* events the first fetch returned, from all pages and in the same order.
C16_ReplayInvisible ==
    /\ fetch.phase = "replay"
    /\ fetch.pc = "returned"
    /\ "original" \in DOMAIN results
    /\ \A i \in CallsOf("replay") : calls[i].resp.status_code = 304
    => results["replay"] = results["original"]

\* ------------------------------------------------------------------ C17
\* call i received a 2xx other than a 304
Got2xx(i) == ~calls[i].resp.raised /\ calls[i].resp.status_code \in 200..299

\* every URL of the listing
Urls == {PageUrl(p) : p \in 1..MaxPages}

\* C17 (cache update and frame): after any sequence of cached GETs the entry
\* of every URL holds the ETag, the Last-Modified and the body of the last
\* 2xx response to a GET of that URL, and a URL that had none has no entry:
\* a 304, a 4xx, a 5xx or an exception leaves the entry as it was, and a GET
\* of one URL leaves the entries of the others as they were.
C17_CacheHoldsLast2xx ==
    \A u \in Urls \cup DOMAIN cache :
        LET ok == {i \in 1..Len(calls) : calls[i].url = u /\ Got2xx(i)}
            last == CHOOSE i \in ok : \A j \in ok : j <= i
        IN  IF ok = {} THEN u \notin DOMAIN cache
            ELSE /\ u \in DOMAIN cache
                 /\ cache[u].etag = calls[last].resp.etag
                 /\ cache[u].last_modified = calls[last].resp.last_modified
                 /\ cache[u].body = calls[last].resp.text

\* a URL that received two 2xx of different bodies and holds the second,
\* with a 304, an error or an exception after them
C17_Witness ==
    \E i \in 1..Len(calls), j \in 1..Len(calls), k \in 1..Len(calls) :
        /\ BackToBack(i, j)
        /\ Got2xx(i)
        /\ Got2xx(j)
        /\ calls[i].resp.text # calls[j].resp.text
        /\ j < k
        /\ ~Got2xx(k)
        /\ cache[calls[j].url].body = calls[j].resp.text

\* ------------------------------------------------------------------ C19
\* the cached GETs of one fetch, in order
Requests(phase) == SelectSeq(calls, LAMBDA c : c.phase = phase)

\* every request of the fetch so far was answered 200
AllAnswered200(phase) ==
    \A i \in CallsOf(phase) : ~calls[i].resp.raised /\ calls[i].resp.status_code = 200

\* the ids of the items of the pages served to the requests, page after page
RECURSIVE ServedIds(_)
ServedIds(reqs) ==
    IF reqs = << >> THEN << >>
    ELSE LET items == Loads(Head(reqs).resp.text)
         IN  [i \in 1..Len(items) |-> ToString(items[i].id)] \o ServedIds(Tail(reqs))

Ids(evs) == [i \in 1..Len(evs) |-> evs[i].id]

\* C19 (REST pagination completeness): against a forge of N pages linked by
\* rel="next" that answers 200, the k-th request of a fetch asks for page k,
\* there are no more than N requests, and the fetch returns after the request
\* of page N, the first with no next link, with one event for each item
\* served, in page order and then in-page order.
C19_PaginationComplete ==
    \A phase \in {"original", "replay"} :
        AllAnswered200(phase) =>
            LET reqs == Requests(phase) IN
            /\ Len(reqs) <= server
            /\ \A k \in 1..Len(reqs) : reqs[k].url = PageUrl(k)
            /\ phase \in DOMAIN results <=> Len(reqs) = server
            /\ phase \in DOMAIN results => Ids(results[phase]) = ServedIds(reqs)
            /\ fetch.phase = phase /\ fetch.pc = "loop" =>
                  Ids(fetch.events) = ServedIds(reqs)

\* a fetch of a listing of more than one page, answered 200 throughout with
\* pages of different sizes, that returned
C19_Witness ==
    /\ server > 1
    /\ AllAnswered200("original")
    /\ "original" \in DOMAIN results
    /\ Len(results["original"]) > Len(Requests("original"))
    /\ \E i \in CallsOf("original"), j \in CallsOf("original") :
          Len(calls[i].data) # Len(calls[j].data)

\* ------------------------------------------------------------------ C18
\* C18 (cache atomicity under concurrency): whatever the interleaving of the
\* reads and writes of concurrent fetches of one URL, what a get returned is
\* None or an entry as one set call wrote it: etag, last_modified, body and
\* fetched_at of the same write.
C18_GetSeesOneWrite ==
    \A t \in DOMAIN gets : gets[t].cached.none \/ gets[t].cached \in written

\* two different entries were written, and a task that waits for its response
\* holds one of them, read while another task was waiting too
C18_Witness ==
    /\ Cardinality({e.body : e \in written}) > 1
    /\ \E t \in DOMAIN gets, t2 \in DOMAIN gets :
          /\ t # t2
          /\ gets[t].pc = "awaiting"
          /\ gets[t2].pc = "awaiting"
          /\ gets[t].cached \in written
          /\ gets[t2].cached # gets[t].cached

\* ------------------------------------------------------------------ C20
\* C20 (GraphQL cursor pagination): in every paginated GraphQL fetch the first
\* request carries no cursor and each later one carries as `after` the
\* endCursor of the page before it, so a fetch against a forge of N pages
\* makes no more than N requests.
C20_CursorPagination ==
    /\ Len(posts) <= server
    /\ \A k \in 1..Len(posts) :
          posts[k] = IF k = 1 THEN NoneStr ELSE Cursor(k - 1)

\* ------------------------------------------------------------------ C21
\* the outcomes of the attempts made so far by the call in progress
Attempts == [i \in 1..Len(req.sent) |-> req.sent[i].o]

\* C21 (synchronous retry bound): a call of http_get makes at most 5
\* attempts; every attempt before the last one failed with an error, so an
\* error is retried and nothing follows a response; a call that returned
\* returned the response of its last attempt, and a call that raised made 5
\* attempts, all failed, and raised the error of the fifth.
C21_SyncRetryBound ==
    req.fn = "http_get" =>
        /\ Len(Attempts) <= 5
        /\ \A i \in 1..(Len(Attempts) - 1) : Attempts[i].raised
        /\ req.pc = "attempt" =>
              /\ Len(Attempts) < 5
              /\ \A i \in 1..Len(Attempts) : Attempts[i].raised
        /\ req.pc = "returned" =>
              /\ ~Attempts[Len(Attempts)].raised
              /\ req.result = Attempts[Len(Attempts)]
        /\ req.pc = "raised" =>
              /\ Len(Attempts) = 5
              /\ \A i \in 1..5 : Attempts[i].raised
              /\ req.result = Attempts[5]

\* five attempts have failed and the call has raised
C21_Witness ==
    /\ req.fn = "http_get"
    /\ req.pc = "raised"
    /\ Len(Attempts) = 5

\* ------------------------------------------------------------------ C22
\* C22 (5xx is transient): a synchronous fetch that has failed on a GET whose
\* last response was a 5xx has made all 5 attempts of that GET.
C22_ServerErrorRetried ==
    /\ pfetch.mode = "sync"
    /\ pfetch.pc = "raised"
    /\ ~req.result.raised
    /\ req.result.status_code \in 500..599
    => Len(Attempts) = 5

\* ------------------------------------------------------------------ C23
\* the header names a second of the epoch
Numeric(reset) == ~reset.none /\ \E n \in Epochs : reset.s = << ToString(n) >>

SecondOf(reset) == CHOOSE n \in Epochs : reset.s = << ToString(n) >>

\* the first response is a 429 or a 403 with a numeric X-RateLimit-Reset
FirstRateLimited ==
    /\ Len(Attempts) >= 1
    /\ ~Attempts[1].raised
    /\ Attempts[1].status_code \in {429, 403}
    /\ Numeric(RateLimitReset(Attempts[1]))

\* C23 (async rate-limit retry happens exactly once): a call of
\* http_get_async sends at most 2 requests and sleeps at most once; it sends
\* the second if and only if the first response was a 429 or a 403 with a
\* numeric X-RateLimit-Reset, after one sleep of max(0, reset - now) + 1
\* seconds, at least 1; the response of the second request is returned
\* whatever its status, and any other first response is returned with no
\* sleep.
C23_AsyncRetryOnce ==
    req.fn = "http_get_async" =>
        /\ Len(Attempts) <= 2
        /\ Len(req.slept) <= 1
        /\ req.pc = "second" \/ Len(Attempts) = 2 =>
              LET reset == SecondOf(RateLimitReset(Attempts[1]))
                  t == req.sent[1].at
              IN  /\ FirstRateLimited
                  /\ req.slept = << (IF reset - t > 0 THEN reset - t ELSE 0) + 1 >>
                  /\ req.slept[1] >= 1
                  /\ Len(Attempts) = 2 => req.sent[2].at = t + req.slept[1]
        /\ req.pc \in {"returned", "raised"} /\ FirstRateLimited => Len(Attempts) = 2
        /\ req.pc = "returned" =>
              /\ req.result = Attempts[Len(Attempts)]
              /\ ~FirstRateLimited => Len(Attempts) = 1 /\ req.slept = << >>
        /\ Len(Attempts) = 2 /\ ~Attempts[2].raised =>
              req.pc = "returned" /\ req.result = Attempts[2]

\* a 429 whose reset second had gone by was slept on for one second and the
\* second request, answered 429 again, was returned
C23_Witness ==
    /\ req.fn = "http_get_async"
    /\ req.pc = "returned"
    /\ Len(Attempts) = 2
    /\ Attempts[1].status_code = 429
    /\ SecondOf(RateLimitReset(Attempts[1])) < req.sent[1].at
    /\ req.slept = << 1 >>
    /\ req.result.status_code = 429

\* ------------------------------------------------------------------ C24
\* the requests of a fetch, in order: url, second, outcome
RECURSIVE Sent(_)
Sent(trace) ==
    IF trace = << >> THEN << >>
    ELSE [i \in 1..Len(Head(trace).sent) |->
             [url |-> Head(trace).url, at |-> Head(trace).sent[i].at,
              o |-> Head(trace).sent[i].o]] \o Sent(Tail(trace))

RECURSIVE Slept(_)
Slept(trace) == IF trace = << >> THEN << >> ELSE Head(trace).slept \o Slept(Tail(trace))

\* page 1 was answered 200 with 2 items and a next link, page 2 was first
\* answered 429 with X-RateLimit-Reset = now + 1 and, asked again, 200 with
\* 1 item and no next link
RateLimitedPage(trace) ==
    LET s == Sent(trace)
    IN  /\ Len(s) \in {2, 3}
        /\ s[1].url = PageUrl(1)
        /\ ~s[1].o.raised /\ s[1].o.status_code = 200
        /\ Len(Loads(s[1].o.text)) = 2
        /\ parse_link_next(s[1].o.link) = Str(PageUrl(2))
        /\ s[2].url = PageUrl(2)
        /\ ~s[2].o.raised /\ s[2].o.status_code = 429
        /\ RateLimitReset(s[2].o) = Str(<< ToString(s[2].at + 1) >>)
        /\ Len(s) = 3 =>
              /\ s[3].url = PageUrl(2)
              /\ ~s[3].o.raised /\ s[3].o.status_code = 200
              /\ Len(Loads(s[3].o.text)) = 1
              /\ parse_link_next(s[3].o.link) = NoneStr

\* C24 (pagination with a rate-limited page): a paginated fetch, synchronous
\* or asynchronous, whose page 2 is first answered 429 with a reset one
\* second ahead returns the 3 items of the two pages after exactly one sleep
\* of at least 1 s.
C24_RateLimitedPage ==
    /\ pfetch.pc \in {"returned", "raised"}
    /\ RateLimitedPage(pfetch.trace)
    => /\ pfetch.pc = "returned"
       /\ Len(pfetch.events) = 3
       /\ Len(Slept(pfetch.trace)) = 1
       /\ Slept(pfetch.trace)[1] >= 1

\* ------------------------------------------------------------------ C25
\* C25 (bot exclusion): with OSSMK_EXCLUDE_BOTS unset or "1", no event that a
\* fetch returns has a user_id that is_bot_login takes for a bot.
C25_BotExclusion ==
    /\ ExcludeBots(env)
    /\ pfetch.pc = "returned"
    => \A i \in 1..Len(pfetch.events) : ~is_bot_login(pfetch.events[i].user_id)

\* ------------------------------------------------------------------ C26
\* the per-repo tasks that have started their fetches and are not over
InFlight == {i \in DOMAIN jobs : jobs[i].pc \in {"commits", "reviews"}}

\* max(1, min(OSSMK_CONCURRENCY, 20)), 5 standing for a variable that is
\* unset or no integer
FanOutLimit ==
    LET v == env.OSSMK_CONCURRENCY
        ints == IF v.kind = "unset" THEN {}
                ELSE {n \in -1..25 : v.s = << ToString(n) >>}
        conc == IF ints = {} THEN 5 ELSE CHOOSE n \in ints : TRUE
        least == IF conc < 20 THEN conc ELSE 20
    IN  IF least > 1 THEN least ELSE 1

EventsOfRepo(i) == {RepoEvent(i, kind) : kind \in {"commit", "review", "issue"}}

\* C27 (best-effort async aggregate): once the repos are listed,
\* fetch_user_contributions_async never raises, whatever subset of repos
\* fails, and what it returns holds every event of each repo whose three
\* fetches succeeded and no event of a repo one of whose fetches failed.
C27_BestEffortAsync ==
    agg.fn = "fetch_user_contributions_async" /\ agg.listed =>
        /\ agg.pc # "raised"
        /\ agg.pc = "returned" =>
              /\ \A i \in DOMAIN jobs : jobs[i].pc \in {"done", "failed"}
              /\ Range(agg.events) =
                     UNION {EventsOfRepo(i) : i \in {j \in DOMAIN jobs : jobs[j].pc = "done"}}

\* the aggregate returned with one repo fetched, one failed at its commits
\* and one failed later
C27_Witness ==
    /\ agg.fn = "fetch_user_contributions_async"
    /\ agg.pc = "returned"
    /\ \E i, j \in DOMAIN jobs :
          /\ jobs[i].pc = "done"
          /\ jobs[j].pc = "failed"
          /\ jobs[j].e1 # << >>
    /\ \E i \in DOMAIN jobs : jobs[i].pc = "failed" /\ jobs[i].e1 = << >>

\* ------------------------------------------------------------------ C28
\* C28 (synchronous skip of an inaccessible repo): when the sync aggregate
\* returns, no event of a repo one of whose requests was answered with an
\* error status is in the result, and every event of the other repos is.
C28_SkipInaccessible ==
    agg.fn = "fetch_user_contributions" /\ agg.pc = "returned" =>
        Range(agg.events) =
            UNION {EventsOfRepo(i) : i \in {j \in DOMAIN jobs : jobs[j].pc = "done"}}

\* ------------------------------------------------------------------ C30
\* C30 (since clamp): whenever parse_since resolves its input to an instant,
\* from a relative text as from an ISO-8601 one, and max_days = m is given,
\* the instant it returns is not earlier than now - m days.
C30_SinceClamp ==
    /\ call.pc = "returned"
    /\ call.ret.kind = "iso"
    /\ ~call.max_days.none
    => Instant(call.ret.text) >= call.at - call.max_days.n * HoursPerDay

\* the manual calls that passed the quota check, ran the analysis and
\* persisted their scores
Persisted == {c \in DOMAIN upd : upd[c].pc = "returned" /\ upd[c].ret.ok /\ upd[c].manual}

Persists(c) == upd[c].pc = "persisting" /\ upd'[c].pc = "returned"

\* the step in which call c is denied by the quota check
Denied(c) == upd[c].pc = "idle" /\ upd'[c].pc = "returned"

\* the difference of the stored totals after and before a step, not below 0
Growth ==
    IF get_latest_total(snapshots') > get_latest_total(snapshots)
    THEN get_latest_total(snapshots') - get_latest_total(snapshots)
    ELSE 0

KindsOf(evs) == {evs[i].kind : i \in DOMAIN evs}

\* C33: on the same forge data, analyze_github_user with api="graphql"
\* collects the events of all four kinds, as api="rest" and api="auto" do,
\* and yields their scores
C33_ModeEquivalence ==
    run # << >> /\ run["graphql"].pc = "returned" =>
        /\ KindsOf(run["graphql"].events) = forge
        /\ \A api \in {"rest", "auto"} :
              run[api].pc # "called" =>
                  /\ run[api].pc = "returned"
                  /\ run[api].out = run["graphql"].out

\* the search hits that are pull requests and those that are issues, by the
\* prefix of the forge's node id
IsPullRequestId(id) == id[1] = "PR_"

IsIssueId(id) == id[1] = "I_"

\* C34: in the GraphQL search path every node that is a pull request becomes
\* an event of kind pr and every node that is an issue an event of kind
\* issue, whatever the node holds
C34_GraphqlKindTagging ==
    gql.op = "search" =>
        \A i \in DOMAIN gql.events :
            /\ IsPullRequestId(gql.events[i].id) => gql.events[i].kind = "pr"
            /\ IsIssueId(gql.events[i].id) => gql.events[i].kind = "issue"

\* ---- decay settings in the rule set and in the environment
OverrideEvents == {Event("d", "commit", RepoOther, U1, TenDaysAgo)}

OverrideRules ==
    {RuleSet(CodeDims, NoFairness, hl, m, w) :
        hl \in {0, 10},
        m \in {NoneStr, Str(<< "exponential" >>), Str(<< "linear" >>)},
        w \in {0, 5}}

OverrideEnvs ==
    {[NoEnv EXCEPT !.OSSMK_DECAY_MODE = m, !.OSSMK_DECAY_HALF_LIFE_DAYS = hl,
                   !.OSSMK_DECAY_WINDOW_DAYS = w] :
        m \in {Unset, Text(<< "window" >>), Text(<< "linear" >>)},
        hl \in {Unset, Num(5)},
        w \in {Unset, Num(20)}}

InitOverride ==
    /\ Init0
    /\ events \in Lists(OverrideEvents, 1)
    /\ rules \in OverrideRules
    /\ env \in OverrideEnvs
    /\ now = Now0

SpecOverride == InitOverride /\ [][Next]_vars

\* C35: a decay variable set in the environment overrides the rule set's
\* setting for the run: the mode, the half-life and the window that the
\* engine uses are the environment's
C35_EnvDecayOverrides ==
    pc # "start" =>
        /\ env.OSSMK_DECAY_MODE # Unset => cfg.decay_mode = Lower(env.OSSMK_DECAY_MODE.s)
        /\ env.OSSMK_DECAY_HALF_LIFE_DAYS # Unset =>
              cfg.decay_hl = env.OSSMK_DECAY_HALF_LIFE_DAYS.n
        /\ env.OSSMK_DECAY_WINDOW_DAYS # Unset =>
              cfg.window_days = env.OSSMK_DECAY_WINDOW_DAYS.n

\* ---- one login written in two letter cases
U1Upper == << "U1" >>

CaseEvents ==
    {Event("a", "commit", RepoOther, U1, Today),
     Event("b", "commit", RepoOther, U1Upper, Today)}

CaseRules == {Plain(CodeDims, [commit |-> c]) : c \in 1..MaxCap}

InitCase ==
    /\ Init0
    /\ events \in Lists(CaseEvents, MaxEvents)
    /\ rules \in CaseRules
    /\ env = NoEnv
    /\ now = Now0

SpecCase == InitCase /\ [][Next]_vars

\* C36: events whose user_id differs only in letter case are one user to
\* the engine: one daily-cap counter per (user, kind, day) and one score
\* record per dimension
C36_CaseInsensitiveSubjects ==
    /\ \A k1, k2 \in DOMAIN counters :
          Lower(k1[1]) = Lower(k2[1]) /\ k1[2] = k2[2] /\ k1[3] = k2[3] => k1 = k2
    /\ \A k1, k2 \in DOMAIN scores :
          Lower(k1[1]) = Lower(k2[1]) /\ k1[2] = k2[2] => k1 = k2
    /\ \A r1, r2 \in out :
          Lower(r1.user_id) = Lower(r2.user_id) /\ r1.dimension = r2.dimension => r1 = r2

\* C37: fetch_user_repos returns the full names of all the repos the login
\* owns, following the pagination of the listing, and the aggregates cut
\* max_repos out of that complete list
C37_RepoListingComplete ==
    /\ lst.pc = "listed" => lst.names = OwnedRepos(lst.pages)
    /\ lst.pc = "cut" => lst.names = Cut(OwnedRepos(lst.pages), lst.max_repos)

\* C38: two events of different kinds that carry the same id are both
\* stored by save_events: every event saved so far has a row of its kind
\* and id
C38_NoCrossKindLoss ==
    \A c \in DOMAIN event_calls :
        \A i \in DOMAIN event_calls[c] :
            /\ event_calls[c][i].id \in DOMAIN ossmk_events
            /\ ossmk_events[event_calls[c][i].id].kind = event_calls[c][i].kind

\* the step in which task t gets a 304 and answers from the entry it read:
\* it returns without raising and without a write to the cache
Answered304(t) ==
    /\ gets[t].pc = "awaiting"
    /\ gets'[t].pc = "idle"
    /\ ~gets'[t].ret.raised
    /\ written' = written

\* C39: in every interleaving of two concurrent cached GETs of one URL, a
\* request that sent If-None-Match = E and is answered 304 parses the body
\* that was stored together with ETag E, also when the other fetch has
\* replaced the URL's cache entry since this request read it
C39_BodyOfValidatorSent ==
    [][\A t \in DOMAIN gets :
          Answered304(t) =>
              /\ Truthy(IfNoneMatch(gets[t].cached))
              /\ \E e \in written :
                    /\ e.etag = IfNoneMatch(gets[t].cached)
                    /\ gets'[t].ret.data = Loads(e.body)
              /\ \A e \in written :
                    e.etag = IfNoneMatch(gets[t].cached) =>
                        gets'[t].ret.data = Loads(e.body)]_vars

\* three responses so far: a first fetch stored version v1 at 0, the other
\* task replaced the entry at 1 with another body while this task was
\* waiting, and this task, answered 304 at 2, returned the body of the entry
\* it had read
C39_Witness ==
    /\ now = 3
    /\ Cardinality(written) = 2
    /\ \E t \in DOMAIN gets :
          /\ gets[t].pc = "idle"
          /\ ~gets[t].ret.raised
          /\ ~gets[t].cached.none
          /\ Truthy(gets[t].cached.etag)
          /\ gets[t].cached.fetched_at = 0
          /\ gets[t].ret.data = Loads(gets[t].cached.body)
          /\ CacheGet(cache, BaseUrl).fetched_at = 1
          /\ CacheGet(cache, BaseUrl).body # gets[t].cached.body

\* the step that is a call of try_acquire(key, 1)
Acquires(key) == acquired'.n = acquired.n + 1 /\ acquired'.key = key

\* C40: for every key and every sequence of try_acquire(key, 1) calls at
\* non-decreasing times, at most `capacity` calls succeed between two
\* consecutive resets of the key's window, the stored token count stays
\* within 0..capacity, a denied call consumes no tokens, and the calls for
\* one key never change the bucket of another
C40_LimiterCapacity ==
    /\ [](\A key \in DOMAIN limiter.buckets :
             /\ limiter.buckets[key][1] \in 0..limiter.capacity
             /\ granted[key] <= limiter.capacity)
    /\ [][\A key \in Keys :
             Acquires(key) =>
                 /\ ~acquired'.ok /\ key \in DOMAIN limiter.buckets =>
                       limiter'.buckets[key][1] >= limiter.buckets[key][1]
                 /\ ~acquired'.ok => granted'[key] <= Get(granted, key)
                 /\ \A other \in Keys \ {key} :
                       IF other \in DOMAIN limiter.buckets
                       THEN /\ other \in DOMAIN limiter'.buckets
                            /\ limiter'.buckets[other] = limiter.buckets[other]
                       ELSE other \notin DOMAIN limiter'.buckets]_vars

\* a key used its whole capacity of 2 in one window and was then denied,
\* while the other key's bucket, touched once, kept its tokens
C40_Witness ==
    /\ limiter.capacity = 2
    /\ DOMAIN limiter.buckets = Keys
    /\ \E key \in Keys :
          /\ acquired.key = key
          /\ ~acquired.ok
          /\ granted[key] = 2
          /\ limiter.buckets[key][1] = 0
          /\ \E other \in Keys \ {key} : limiter.buckets[other][1] = 1

====
